---- MODULE Spec2Model ----
(***************************************************************************)
(* Conduit X-Ray: the tiered scanner (src/src/xray/scanner.ts), the        *)
(* analyzer (src/src/xray/analyzer.ts), the knowledge-graph builder        *)
(* (src/src/xray/graph.ts), the report generator (src/xray/reports.ts),    *)
(* the X-Ray tools of the MCP server (src/src/server.ts) and the rate      *)
(* limiter (src/middleware/rate-limit.ts).                                 *)
(*                                                                         *)
(* Strings of the program are modelled as follows: an item id is a         *)
(* one-element sequence <<"ID-A">>, a path is the sequence of its          *)
(* segments (<<"sitecore","content","a">> is /sitecore/content/a), so      *)
(* that ids and paths are comparable values and path.split('/') /          *)
(* join('/') are sequence operations.                                      *)
(***************************************************************************)
EXTENDS Integers, Sequences, FiniteSets, TLC

VARIABLES
    \* ---- content source (environment of one scan) ----
    par,            \* par[n]: parent node of content node n (0 is rootPath)
    scoped,         \* the adapter answers a listing with the children of the path
                    \* being expanded (TRUE) or with every item it holds (FALSE)
    untyped,        \* the nodes whose items the adapter returns without a type
    \* ---- XRayScanner.config ----
    maxItems, maxDepth, tier, includeTemplates, includeMedia, includeRenderings,
    hasProgress,    \* whether scan() was given an onProgress callback
    \* ---- XRayScanner.result ----
    status, phase, currentPath, itemsScanned, errors,
    items,          \* result.items: the IndexedItem values in Map insertion order
    templates, media, renderings,
    deepData,       \* result.deepData: the DeepItemData values in Map insertion order
    childrenMap, templateUsage, renderingUsage,
    \* ---- XRayScanner private state and the position inside scan() ----
    aborted, queue, depth, children, candidates, pc,
    \* ---- history (not program state) ----
    fetched,        \* paths whose children fetch was issued
    escaped,        \* an exception left the body of scan()'s try block
    itemsAtAbort,   \* items at the moment abort() was first called
    queuedAtFailure, \* paths that were in the queue when a children fetch threw
    sinceSleep,     \* fetches issued since the last requestDelay sleep ended
    deepLog,        \* the fetchDeepItemData calls made: [id, ok] in call order
    \* ---- buildKnowledgeGraph(scan, options) ----
    gScan,          \* the ScanResult handed to the builder
    gOptions,       \* the GraphOptions handed to the builder
    gGraph,         \* the KnowledgeGraph returned ("none" before the call)
    gPc,            \* "idle", "ready" (builder constructed) or "returned"
    \* ---- analyzeXRayScan(scan) ----
    aScan,          \* the ScanResult handed to the analyzer
    aNow,           \* the day the analysis runs (new Date())
    aResult,        \* the AnalysisResult returned ("none" before the call)
    aPc,            \* "idle", "ready" (analyzer constructed) or "analyzed"
    aReport,        \* the XRayReport generated from the analysis, if any
    \* ---- ConduitServer: the X-Ray tools ----
    xStored,        \* xrayScans holds the entry of the scan
    xAnalysis,      \* stored.analysis: <<>> while undefined, else <<analysis>>
    xThenRan,       \* the callback given to scan().then(...) has run
    lastXrayHealth, \* lastXrayHealth.get(adapter): <<>> while absent, else <<entry>>
    clock,          \* the day new Date() returns
    xReports,       \* history: the xray_report replies given for the complete scan
    xReply,         \* history: the last reply of another tool call, <<>> before it
    xScans,         \* xrayScans seen by adapter: the entries [adapter, status] in the
                    \* order of their creation
    \* ---- RateLimitMiddleware ----
    rlWindowMs,     \* this.windowMs
    rlLimit,        \* this.limit (options.maxRequests)
    rlWindows,      \* this.windows: the entries [id, timestamps] in insertion order
    rlNow,          \* Date.now()
    rlCalls         \* history: the checkLimit calls made, [key, at, allowed]

scanVars == <<par, scoped, untyped, maxItems, maxDepth, tier, includeTemplates, includeMedia,
              includeRenderings, hasProgress, status, phase, currentPath,
              itemsScanned, errors, items, templates, media, renderings,
              deepData, childrenMap, templateUsage, renderingUsage, aborted,
              queue, depth, children, candidates, pc, fetched, escaped,
              itemsAtAbort, queuedAtFailure, sinceSleep, deepLog>>

graphVars == <<gScan, gOptions, gGraph, gPc>>

analyzerVars == <<aScan, aNow, aResult, aPc, aReport>>

registryVars == <<xScans>>

rateVars == <<rlWindowMs, rlLimit, rlWindows, rlNow, rlCalls>>

serverVars == <<xStored, xAnalysis, xThenRan, lastXrayHealth, clock, xReports, xReply,
                registryVars, rateVars>>

vars == <<scanVars, graphVars, analyzerVars, serverVars>>

\* ------------------------------------------------------------------------
\* Bounds of the model
\* ------------------------------------------------------------------------
NumItems == 4          \* content items below rootPath
MaxDepthBound == 1     \* config.maxDepth is -1 (unlimited), 0 or MaxDepthBound
MaxFetches == 7        \* dequeued paths a scan is followed for: more than any
                       \* scan of a tree of the model dequeues

\* ------------------------------------------------------------------------
\* Helpers
\* ------------------------------------------------------------------------
Range(s) == {s[i] : i \in 1..Len(s)}

\* Map.set(rec.id, rec) on a Map kept as the sequence of its values in
\* insertion order: a new key goes last, an existing key keeps its place.
MapSet(m, rec) ==
    IF \E i \in 1..Len(m) : m[i].id = rec.id
    THEN [i \in 1..Len(m) |-> IF m[i].id = rec.id THEN rec ELSE m[i]]
    ELSE Append(m, rec)

Keys(m) == {m[i].id : i \in 1..Len(m)}

\* (map.get(k) || []).push(v); map.set(k, ...) on a Map of arrays, kept as
\* a function from its keys.
MapPush(map, k, v) ==
    IF k \in DOMAIN map THEN [map EXCEPT ![k] = Append(@, v)]
    ELSE [x \in (DOMAIN map) \cup {k} |-> IF x = k THEN <<v>> ELSE map[x]]

EmptyMap == [x \in {} |-> <<>>]

\* ------------------------------------------------------------------------
\* The content source: a finite tree below rootPath
\* ------------------------------------------------------------------------
Nodes == 1..NumItems
NodeName == <<"a", "b", "c", "d", "e", "f">>
NodeId == <<"ID-A", "ID-B", "ID-C", "ID-D", "ID-E", "ID-F">>
RootPath == <<"sitecore", "content">>
TemplatesPath == <<"sitecore", "templates">>
MediaPath == <<"sitecore", "media library">>
RenderingsPath == <<"sitecore", "layout", "renderings">>

\* The trees of the model: every node hangs below rootPath or below the node
\* before it (chains, stars and the mixed shapes between them).
Trees == {p \in [Nodes -> 0..(NumItems - 1)] : \A n \in Nodes : p[n] \in {0, n - 1}}

\* The values config.maxItems takes: below, just below and at the tree's size.
MaxItemsChoices == {1, NumItems - 1, NumItems}

RECURSIVE PathOfNode(_, _)
PathOfNode(p, n) == IF n = 0 THEN RootPath
                    ELSE Append(PathOfNode(p, p[n]), NodeName[n])

IdOfNode(n) == <<NodeId[n]>>
NodeOfId(id) == CHOOSE n \in 1..Len(NodeId) : IdOfNode(n) = id

\* Odd nodes are pages, even nodes are folders.
TemplateNameOfNode(n) == IF n % 2 = 1 THEN "Article Page" ELSE "Folder"
TemplateIdOfNode(n) == IF n % 2 = 1 THEN <<"TPL-PAGE">> ELSE <<"TPL-FOLDER">>

SourceTemplates == <<<<"TPL-PAGE">>, <<"TPL-FOLDER">>, <<"TPL-UNUSED">>>>
SourceMedia == <<<<"MEDIA-1">>>>
SourceRenderings == <<<<"RND-1">>, <<"RND-2">>>>

\* Page renderings of a deep item: every page uses RND-1.
DeepRenderingsOfNode(n) == <<[renderingId |-> <<"RND-1">>, placeholder |-> "main"]>>

\* extractParentId(path): the path without its last segment.
extractParentId(path) == IF Len(path) = 0 THEN <<>> ELSE SubSeq(path, 1, Len(path) - 1)

\* The value of a property the adapter's answer does not hold.
Undefined == "undefined"

\* One element of the array fetchChildren returns (the SitecoreItem mapping):
\* TemplateName is item.type, which nothing checks to be there.
SitecoreItem(p, n) ==
    [ItemID |-> IdOfNode(n),
     ItemName |-> NodeName[n],
     ItemPath |-> PathOfNode(p, n),
     TemplateID |-> TemplateIdOfNode(n),
     TemplateName |-> IF n \in untyped THEN Undefined ELSE TemplateNameOfNode(n),
     ParentID |-> extractParentId(PathOfNode(p, n)),
     HasChildren |-> (\E m \in DOMAIN p : p[m] = n)]

RECURSIVE ChildrenFrom(_, _, _)
ChildrenFrom(p, path, n) ==
    IF n > Len(p) THEN <<>>
    ELSE IF PathOfNode(p, p[n]) = path
         THEN <<SitecoreItem(p, n)>> \o ChildrenFrom(p, path, n + 1)
         ELSE ChildrenFrom(p, path, n + 1)

\* fetchChildren(path) when the request succeeds and the adapter answers with
\* the children of the path.
fetchChildren(p, path) == ChildrenFrom(p, path, 1)

\* fetchChildren(path) as lines 456-459 call the adapter: listContent is given
\* a limit and a locale and not the path, and an adapter that answers from
\* these alone returns the same items for every path.
listContent(p) == [n \in 1..Len(p) |-> SitecoreItem(p, n)]

\* shouldContinueDepth(currentDepth)
shouldContinueDepth(currentDepth) ==
    IF maxDepth = -1 THEN TRUE ELSE currentDepth < maxDepth

\* An entry of progress.errors.  "site" is a history tag naming the
\* statement that pushed the entry.
ScanError(path, message, site) == [path |-> path, message |-> message, site |-> site]

\* ------------------------------------------------------------------------
\* XRayScanner
\* ------------------------------------------------------------------------
\* The IndexedItem built from one fetched child.
IndexedItem(item) ==
    [id |-> item.ItemID,
     name |-> item.ItemName,
     path |-> item.ItemPath,
     templateId |-> item.TemplateID,
     templateName |-> item.TemplateName,
     parentId |-> item.ParentID,
     hasChildren |-> item.HasChildren]

\* templateName.toLowerCase().includes(...) for the names of the source.
IsPageTemplateName(name) == name \in {"Article Page", "Home", "Landing"}

\* getItemsForDeepScan(): the ids of the page-like items, at most 1000.
DeepScanCap == 1000

RECURSIVE PageIds(_)
PageIds(its) ==
    IF its = <<>> THEN <<>>
    ELSE (IF IsPageTemplateName(Head(its).templateName) THEN <<Head(its).id>> ELSE <<>>)
         \o PageIds(Tail(its))

getItemsForDeepScan(its) ==
    LET ids == PageIds(its)
    IN  IF Len(ids) > DeepScanCap THEN SubSeq(ids, 1, DeepScanCap) ELSE ids

\* item.templateName.toLowerCase() throws a TypeError for an item without a
\* templateName: in getItemsForDeepScan (line 363) and in the analyzer's
\* detectEmptyContainers (analyzer.ts:443), both of which visit every item.
toLowerCaseThrows(its) == \E i \in 1..Len(its) : its[i].templateName = Undefined

\* The children loop of buildRelationshipMaps() with key and value exchanged.
RECURSIVE BuildChildrenMap_Swapped(_, _)
BuildChildrenMap_Swapped(its, map) ==
    IF its = <<>> THEN map
    ELSE BuildChildrenMap_Swapped(Tail(its),
            IF Head(its).parentId # <<>>
            THEN MapPush(map, Head(its).id, Head(its).parentId) ELSE map)

\* buildRelationshipMaps(): the three loops.
RECURSIVE BuildChildrenMap(_, _)
BuildChildrenMap(its, map) ==
    IF its = <<>> THEN map
    ELSE BuildChildrenMap(Tail(its),
            IF Head(its).parentId # <<>>
            THEN MapPush(map, Head(its).parentId, Head(its).id) ELSE map)

\* The template usage loop keeping only the first item of each template.
RECURSIVE BuildTemplateUsage_FirstOnly(_, _)
BuildTemplateUsage_FirstOnly(its, map) ==
    IF its = <<>> THEN map
    ELSE BuildTemplateUsage_FirstOnly(Tail(its),
            IF Head(its).templateId \in DOMAIN map THEN map
            ELSE MapPush(map, Head(its).templateId, Head(its).id))

RECURSIVE BuildTemplateUsage(_, _)
BuildTemplateUsage(its, map) ==
    IF its = <<>> THEN map
    ELSE BuildTemplateUsage(Tail(its), MapPush(map, Head(its).templateId, Head(its).id))

RECURSIVE PushRenderings(_, _, _)
PushRenderings(rs, pageId, map) ==
    IF rs = <<>> THEN map
    ELSE PushRenderings(Tail(rs), pageId, MapPush(map, Head(rs).renderingId, pageId))

RECURSIVE BuildRenderingUsage(_, _)
BuildRenderingUsage(deep, map) ==
    IF deep = <<>> THEN map
    ELSE BuildRenderingUsage(Tail(deep),
            PushRenderings(Head(deep).renderings, Head(deep).id, map))

\* No graph is being built.
GraphIdle ==
    /\ gScan = "none"
    /\ gOptions = "none"
    /\ gGraph = "none"
    /\ gPc = "idle"

\* No analysis is being run.
AnalyzerIdle ==
    /\ aScan = "none"
    /\ aNow = 0
    /\ aResult = "none"
    /\ aPc = "idle"
    /\ aReport = <<>>

\* No server holds the scan.
RegistryIdle == xScans = <<>>

\* No rate limiter is in use.
RateIdle ==
    /\ rlWindowMs = 0
    /\ rlLimit = 0
    /\ rlWindows = <<>>
    /\ rlNow = 0
    /\ rlCalls = <<>>

ServerIdle ==
    /\ RegistryIdle
    /\ RateIdle
    /\ xStored = FALSE
    /\ xAnalysis = <<>>
    /\ xThenRan = FALSE
    /\ lastXrayHealth = <<>>
    /\ clock = 0
    /\ xReports = <<>>
    /\ xReply = <<>>

\* The configurations scans are started with: every value of tier, of each
\* include flag and of the presence of a callback, in pairwise combination.
ScanConfigs ==
    {[tier |-> 1, templates |-> FALSE, media |-> FALSE, renderings |-> FALSE, progress |-> FALSE],
     [tier |-> 1, templates |-> TRUE, media |-> TRUE, renderings |-> TRUE, progress |-> TRUE],
     [tier |-> 2, templates |-> FALSE, media |-> FALSE, renderings |-> FALSE, progress |-> TRUE],
     [tier |-> 2, templates |-> TRUE, media |-> TRUE, renderings |-> TRUE, progress |-> FALSE],
     [tier |-> 1, templates |-> TRUE, media |-> FALSE, renderings |-> TRUE, progress |-> FALSE]}

\* What no step of the scanner writes: its configuration, the content source
\* and the state of the other components.
UnchangedConfig ==
    /\ UNCHANGED <<par, scoped, untyped, maxItems, maxDepth, tier, includeTemplates, includeMedia,
                   includeRenderings, hasProgress>>
    /\ UNCHANGED <<graphVars, analyzerVars, serverVars>>

\* initializeResult(), lines 55-79, and the scanner's private state.
initializeResult ==
    /\ status = "pending"
    /\ phase = "items"
    /\ currentPath = <<>>
    /\ itemsScanned = 0
    /\ errors = <<>>
    /\ items = <<>>
    /\ templates = <<>>
    /\ media = <<>>
    /\ renderings = <<>>
    /\ deepData = <<>>
    /\ childrenMap = EmptyMap
    /\ templateUsage = EmptyMap
    /\ renderingUsage = EmptyMap
    /\ aborted = FALSE
    /\ queue = <<>>
    /\ depth = 0
    /\ children = <<>>
    /\ candidates = <<>>
    /\ pc = "pending"
    /\ fetched = {}
    /\ escaped = FALSE
    /\ itemsAtAbort = <<>>
    /\ queuedAtFailure = {}
    /\ sinceSleep = 0
    /\ deepLog = <<>>

InitScan ==
    /\ GraphIdle
    /\ AnalyzerIdle
    /\ ServerIdle
    /\ par \in Trees
    /\ scoped = TRUE
    /\ untyped = {}
    /\ maxItems \in MaxItemsChoices
    /\ maxDepth \in {-1, 0, MaxDepthBound}
    /\ \E c \in ScanConfigs :
          /\ tier = c.tier
          /\ includeTemplates = c.templates
          /\ includeMedia = c.media
          /\ includeRenderings = c.renderings
          /\ hasProgress = c.progress
    /\ initializeResult

\* abort(): callable by the owner of the scanner whenever control is outside
\* the scanner, i.e. before scan() and while scan() is suspended in an await.
AwaitPoints == {"pending", "awaitFetch", "awaitDelay", "awaitTemplates", "awaitMedia",
                "awaitRenderings", "awaitDeep", "awaitDeepDelay"}

Abort ==
    /\ pc \in AwaitPoints
    /\ ~aborted
    /\ aborted' = TRUE
    /\ itemsAtAbort' = items
    /\ UnchangedConfig
    /\ UNCHANGED <<status, phase, currentPath, itemsScanned, errors, items, templates,
                   media, renderings, deepData, childrenMap, templateUsage,
                   renderingUsage, queue, depth, children, candidates, pc, fetched,
                   escaped, queuedAtFailure, sinceSleep, deepLog>>

\* scan(), lines 103-108, and scanItems() up to the while loop.
ScanStart ==
    /\ pc = "pending"
    /\ status' = "scanning"
    /\ phase' = "items"
    /\ queue' = <<RootPath>>
    /\ depth' = 0
    /\ pc' = "whileTest"
    /\ UnchangedConfig
    /\ UNCHANGED <<currentPath, itemsScanned, errors, items, templates, media,
                   renderings, deepData, childrenMap, templateUsage, renderingUsage,
                   aborted, children, candidates, fetched, escaped, itemsAtAbort,
                   queuedAtFailure, sinceSleep, deepLog>>

\* while (queue.length > 0 && !this.aborted) { currentPath = queue.shift(); fetch }
\* The model follows a scan for MaxFetches dequeued paths.
WhileTest ==
    /\ pc = "whileTest"
    /\ depth < MaxFetches
    /\ IF queue # <<>> /\ ~aborted
       THEN /\ currentPath' = Head(queue)
            /\ queue' = Tail(queue)
            /\ fetched' = fetched \cup {Head(queue)}
            /\ sinceSleep' = sinceSleep + 1
            /\ pc' = "awaitFetch"
       ELSE /\ pc' = "afterItems"
            /\ UNCHANGED <<currentPath, queue, fetched, sinceSleep>>
    /\ UnchangedConfig
    /\ UNCHANGED <<status, phase, itemsScanned, errors, items, templates, media,
                   renderings, deepData, childrenMap, templateUsage, renderingUsage,
                   aborted, depth, children, candidates, escaped, itemsAtAbort,
                   queuedAtFailure, deepLog>>

\* fetchChildren resolves.
FetchChildrenOk ==
    /\ pc = "awaitFetch"
    /\ children' = IF scoped THEN fetchChildren(par, currentPath) ELSE listContent(par)
    /\ pc' = "forEach"
    /\ UnchangedConfig
    /\ UNCHANGED <<status, phase, currentPath, itemsScanned, errors, items, templates,
                   media, renderings, deepData, childrenMap, templateUsage,
                   renderingUsage, aborted, queue, depth, candidates, fetched, escaped,
                   itemsAtAbort, queuedAtFailure, sinceSleep, deepLog>>

FetchChildrenThrow_DropsQueue ==
    /\ pc = "awaitFetch"
    /\ errors' = Append(errors, ScanError(currentPath, "fetch failed", "scanItems.catch"))
    /\ pc' = "progress"
    /\ queuedAtFailure' = queuedAtFailure \cup Range(queue)
    /\ queue' = <<>>
    /\ UnchangedConfig
    /\ UNCHANGED <<status, phase, currentPath, itemsScanned, items, templates, media,
                   renderings, deepData, childrenMap, templateUsage, renderingUsage,
                   aborted, depth, children, candidates, fetched, escaped,
                   itemsAtAbort, sinceSleep, deepLog>>

\* fetchChildren rejects: the catch of scanItems (lines 202-208).
FetchChildrenThrow ==
    /\ pc = "awaitFetch"
    /\ errors' = Append(errors, ScanError(currentPath, "fetch failed", "scanItems.catch"))
    /\ pc' = "progress"
    /\ queuedAtFailure' = queuedAtFailure \cup Range(queue)
    /\ UnchangedConfig
    /\ UNCHANGED <<status, phase, currentPath, itemsScanned, items, templates, media,
                   renderings, deepData, childrenMap, templateUsage, renderingUsage,
                   aborted, queue, depth, children, candidates, fetched, escaped,
                   itemsAtAbort, sinceSleep, deepLog>>

\* if (this.aborted) break;  (line 165)
ForBreak_Never == FALSE

ForBreak == aborted

\* if (this.result.items.size >= this.config.maxItems)  (line 168)
LimitReached_OffByOne == Len(items) > maxItems

LimitReached == Len(items) >= maxItems

\* One iteration of for (const item of children), lines 164-197.
ForEachChild ==
    /\ pc = "forEach"
    /\ IF children = <<>> \/ ForBreak
       THEN /\ pc' = "awaitDelay"
            /\ children' = <<>>
            /\ UNCHANGED <<errors, items, itemsScanned, queue>>
       ELSE IF LimitReached
       THEN /\ errors' = Append(errors,
                           ScanError(currentPath, "Max items limit reached", "scanItems.limit"))
            /\ pc' = "afterItems"
            /\ children' = <<>>
            /\ UNCHANGED <<items, itemsScanned, queue>>
       ELSE /\ items' = MapSet(items, IndexedItem(Head(children)))
            /\ itemsScanned' = itemsScanned + 1
            /\ queue' = IF Head(children).HasChildren /\ shouldContinueDepth(depth)
                        THEN Append(queue, Head(children).ItemPath) ELSE queue
            /\ children' = Tail(children)
            /\ pc' = "forEach"
            /\ UNCHANGED errors
    /\ UnchangedConfig
    /\ UNCHANGED <<status, phase, currentPath, templates, media, renderings, deepData,
                   childrenMap, templateUsage, renderingUsage, aborted, depth,
                   candidates, fetched, escaped, itemsAtAbort,
                   queuedAtFailure, sinceSleep, deepLog>>

\* await this.delay(requestDelay) resolves.
DelayDone ==
    /\ pc = "awaitDelay"
    /\ pc' = "progress"
    /\ sinceSleep' = 0
    /\ UnchangedConfig
    /\ UNCHANGED <<status, phase, currentPath, itemsScanned, errors, items, templates,
                   media, renderings, deepData, childrenMap, templateUsage,
                   renderingUsage, aborted, queue, depth, children, candidates, fetched,
                   escaped, itemsAtAbort, queuedAtFailure, deepLog>>

\* if (onProgress) onProgress(...); depth++  (lines 210-215).  The callback is
\* the caller's code: it returns, or it throws, and here nothing catches it.
ReportProgress ==
    /\ pc = "progress"
    /\ \E throws \in {FALSE, hasProgress} :
          IF throws
          THEN /\ pc' = "catch"
               /\ escaped' = TRUE
               /\ UNCHANGED depth
          ELSE /\ pc' = "whileTest"
               /\ depth' = depth + 1
               /\ UNCHANGED escaped
    /\ UnchangedConfig
    /\ UNCHANGED <<status, phase, currentPath, itemsScanned, errors, items, templates,
                   media, renderings, deepData, childrenMap, templateUsage,
                   renderingUsage, aborted, queue, children, candidates, fetched,
                   itemsAtAbort, queuedAtFailure, sinceSleep, deepLog>>

\* scan(), lines 110-112, and scanTemplates() up to its await.
AfterItems ==
    /\ pc = "afterItems"
    /\ IF includeTemplates
       THEN /\ phase' = "templates"
            /\ currentPath' = TemplatesPath
            /\ pc' = "awaitTemplates"
       ELSE /\ pc' = "afterTemplates"
            /\ UNCHANGED <<phase, currentPath>>
    /\ UnchangedConfig
    /\ UNCHANGED <<status, itemsScanned, errors, items, templates, media, renderings,
                   deepData, childrenMap, templateUsage, renderingUsage, aborted, queue,
                   depth, children, candidates, fetched, escaped, itemsAtAbort,
                   queuedAtFailure, sinceSleep, deepLog>>

\* fetchTemplates resolves or rejects (lines 226-249).  onProgress is called
\* inside the try, so what it throws is recorded like a failed fetch.
TemplatesDone ==
    /\ pc = "awaitTemplates"
    /\ \E ok \in BOOLEAN, throws \in {FALSE, hasProgress} :
          /\ templates' = IF ok THEN SourceTemplates ELSE templates
          /\ errors' = IF ~ok
                       THEN Append(errors, ScanError(TemplatesPath, "fetch failed",
                                                     "scanTemplates.catch"))
                       ELSE IF throws
                       THEN Append(errors, ScanError(TemplatesPath, "callback failed",
                                                     "scanTemplates.catch"))
                       ELSE errors
    /\ pc' = "afterTemplates"
    /\ UnchangedConfig
    /\ UNCHANGED <<status, phase, currentPath, itemsScanned, items, media, renderings,
                   deepData, childrenMap, templateUsage, renderingUsage, aborted, queue,
                   depth, children, candidates, fetched, escaped, itemsAtAbort,
                   queuedAtFailure, sinceSleep, deepLog>>

\* scan(), lines 114-116, and scanMedia() up to its await.
AfterTemplates ==
    /\ pc = "afterTemplates"
    /\ IF includeMedia
       THEN /\ phase' = "media"
            /\ currentPath' = MediaPath
            /\ pc' = "awaitMedia"
       ELSE /\ pc' = "afterMedia"
            /\ UNCHANGED <<phase, currentPath>>
    /\ UnchangedConfig
    /\ UNCHANGED <<status, itemsScanned, errors, items, templates, media, renderings,
                   deepData, childrenMap, templateUsage, renderingUsage, aborted, queue,
                   depth, children, candidates, fetched, escaped, itemsAtAbort,
                   queuedAtFailure, sinceSleep, deepLog>>

\* fetchMedia resolves or rejects (lines 259-286).
MediaDone ==
    /\ pc = "awaitMedia"
    /\ \E ok \in BOOLEAN, throws \in {FALSE, hasProgress} :
          /\ media' = IF ok THEN SourceMedia ELSE media
          /\ errors' = IF ~ok
                       THEN Append(errors, ScanError(MediaPath, "fetch failed",
                                                     "scanMedia.catch"))
                       ELSE IF throws
                       THEN Append(errors, ScanError(MediaPath, "callback failed",
                                                     "scanMedia.catch"))
                       ELSE errors
    /\ pc' = "afterMedia"
    /\ UnchangedConfig
    /\ UNCHANGED <<status, phase, currentPath, itemsScanned, items, templates,
                   renderings, deepData, childrenMap, templateUsage, renderingUsage,
                   aborted, queue, depth, children, candidates, fetched, escaped,
                   itemsAtAbort, queuedAtFailure, sinceSleep, deepLog>>

\* scan(), lines 118-120, and scanRenderings() up to its await.
AfterMedia ==
    /\ pc = "afterMedia"
    /\ IF includeRenderings
       THEN /\ phase' = "renderings"
            /\ currentPath' = RenderingsPath
            /\ pc' = "awaitRenderings"
       ELSE /\ pc' = "afterRenderings"
            /\ UNCHANGED <<phase, currentPath>>
    /\ UnchangedConfig
    /\ UNCHANGED <<status, itemsScanned, errors, items, templates, media, renderings,
                   deepData, childrenMap, templateUsage, renderingUsage, aborted, queue,
                   depth, children, candidates, fetched, escaped, itemsAtAbort,
                   queuedAtFailure, sinceSleep, deepLog>>

\* fetchRenderings resolves or rejects (lines 296-318).
RenderingsDone ==
    /\ pc = "awaitRenderings"
    /\ \E ok \in BOOLEAN, throws \in {FALSE, hasProgress} :
          /\ renderings' = IF ok THEN SourceRenderings ELSE renderings
          /\ errors' = IF ~ok
                       THEN Append(errors, ScanError(RenderingsPath, "fetch failed",
                                                     "scanRenderings.catch"))
                       ELSE IF throws
                       THEN Append(errors, ScanError(RenderingsPath, "callback failed",
                                                     "scanRenderings.catch"))
                       ELSE errors
    /\ pc' = "afterRenderings"
    /\ UnchangedConfig
    /\ UNCHANGED <<status, phase, currentPath, itemsScanned, items, templates, media,
                   deepData, childrenMap, templateUsage, renderingUsage, aborted, queue,
                   depth, children, candidates, fetched, escaped, itemsAtAbort,
                   queuedAtFailure, sinceSleep, deepLog>>

\* scan(), lines 123-125, and deepScanFlaggedItems() up to its loop.
AfterRenderings ==
    /\ pc = "afterRenderings"
    /\ IF tier >= 2 /\ toLowerCaseThrows(items)
       THEN /\ phase' = "deep"
            /\ pc' = "catch"
            /\ escaped' = TRUE
            /\ UNCHANGED candidates
       ELSE IF tier >= 2
       THEN /\ phase' = "deep"
            /\ candidates' = getItemsForDeepScan(items)
            /\ pc' = "deepLoop"
            /\ UNCHANGED escaped
       ELSE /\ pc' = "build"
            /\ UNCHANGED <<phase, candidates, escaped>>
    /\ UnchangedConfig
    /\ UNCHANGED <<status, currentPath, itemsScanned, errors, items, templates, media,
                   renderings, deepData, childrenMap, templateUsage, renderingUsage,
                   aborted, queue, depth, children, fetched, itemsAtAbort,
                   queuedAtFailure, sinceSleep, deepLog>>

\* for (const itemId of itemsToDeepScan) { if (this.aborted) break; ... }
DeepLoop ==
    /\ pc = "deepLoop"
    /\ pc' = IF candidates = <<>> \/ aborted THEN "deepProgress" ELSE "awaitDeep"
    /\ sinceSleep' = IF candidates = <<>> \/ aborted THEN sinceSleep ELSE sinceSleep + 1
    /\ UnchangedConfig
    /\ UNCHANGED <<status, phase, currentPath, itemsScanned, errors, items, templates,
                   media, renderings, deepData, childrenMap, templateUsage,
                   renderingUsage, aborted, queue, depth, children, candidates, fetched,
                   escaped, itemsAtAbort, queuedAtFailure, deepLog>>

\* fetchDeepItemData(itemId) resolves: with the item's data, or with null when
\* getPageLayout or getContent threw (its own catch, lines 413-415).
DeepFetchDone ==
    /\ pc = "awaitDeep"
    /\ \E ok \in BOOLEAN :
          /\ deepData' = IF ok
                         THEN MapSet(deepData,
                                     [id |-> Head(candidates),
                                      fields |-> <<>>,
                                      renderings |->
                                          DeepRenderingsOfNode(NodeOfId(Head(candidates)))])
                         ELSE deepData
          /\ deepLog' = Append(deepLog, [id |-> Head(candidates), ok |-> ok])
    /\ pc' = "awaitDeepDelay"
    /\ UnchangedConfig
    /\ UNCHANGED <<status, phase, currentPath, itemsScanned, errors, items, templates,
                   media, renderings, childrenMap, templateUsage, renderingUsage,
                   aborted, queue, depth, children, candidates, fetched, escaped,
                   itemsAtAbort, queuedAtFailure, sinceSleep>>

\* await this.delay(requestDelay) inside the deep loop resolves.
DeepDelayDone ==
    /\ pc = "awaitDeepDelay"
    /\ candidates' = Tail(candidates)
    /\ sinceSleep' = 0
    /\ pc' = "deepLoop"
    /\ UnchangedConfig
    /\ UNCHANGED <<status, phase, currentPath, itemsScanned, errors, items, templates,
                   media, renderings, deepData, childrenMap, templateUsage,
                   renderingUsage, aborted, queue, depth, children, fetched, escaped,
                   itemsAtAbort, queuedAtFailure, deepLog>>

\* if (onProgress) onProgress(...) at the end of deepScanFlaggedItems (349-351),
\* outside any try of that method.
DeepProgress ==
    /\ pc = "deepProgress"
    /\ \E throws \in {FALSE, hasProgress} :
          /\ pc' = IF throws THEN "catch" ELSE "build"
          /\ escaped' = (escaped \/ throws)
    /\ UnchangedConfig
    /\ UNCHANGED <<status, phase, currentPath, itemsScanned, errors, items, templates,
                   media, renderings, deepData, childrenMap, templateUsage,
                   renderingUsage, aborted, queue, depth, children, candidates, fetched,
                   itemsAtAbort, queuedAtFailure, sinceSleep, deepLog>>

\* buildRelationshipMaps(); status = 'complete'  (lines 128-132).
BuildAndComplete ==
    /\ pc = "build"
    /\ childrenMap' = BuildChildrenMap(items, childrenMap)
    /\ templateUsage' = BuildTemplateUsage(items, templateUsage)
    /\ renderingUsage' = BuildRenderingUsage(deepData, renderingUsage)
    /\ status' = "complete"
    /\ phase' = "complete"
    /\ pc' = "done"
    /\ UnchangedConfig
    /\ UNCHANGED <<currentPath, itemsScanned, errors, items, templates, media,
                   renderings, deepData, aborted, queue, depth, children, candidates,
                   fetched, escaped, itemsAtAbort, queuedAtFailure, sinceSleep, deepLog>>

\* error.message of what reaches the catch of scan(): the TypeError of
\* getItemsForDeepScan (thrown right after phase = 'deep' is set, before any
\* callback of that phase) or what the onProgress callback threw.
thrownMessage ==
    IF phase = "deep" /\ toLowerCaseThrows(items)
    THEN "Cannot read properties of undefined"
    ELSE "callback failed"

ScanCatch_NoStatus ==
    /\ pc = "catch"
    /\ errors' = Append(errors, ScanError(currentPath, thrownMessage, "scan.catch"))
    /\ pc' = "done"
    /\ UnchangedConfig
    /\ UNCHANGED <<status, phase, currentPath, itemsScanned, items, templates, media,
                   renderings, deepData, childrenMap, templateUsage, renderingUsage,
                   aborted, queue, depth, children, candidates, fetched, escaped,
                   itemsAtAbort, queuedAtFailure, sinceSleep, deepLog>>

\* catch (error) of scan(), lines 134-141.
ScanCatch ==
    /\ pc = "catch"
    /\ status' = "failed"
    /\ errors' = Append(errors, ScanError(currentPath, thrownMessage, "scan.catch"))
    /\ pc' = "done"
    /\ UnchangedConfig
    /\ UNCHANGED <<phase, currentPath, itemsScanned, items, templates, media, renderings,
                   deepData, childrenMap, templateUsage, renderingUsage, aborted, queue,
                   depth, children, candidates, fetched, escaped, itemsAtAbort,
                   queuedAtFailure, sinceSleep, deepLog>>

\* The steps the scanner itself takes (every await settles, every synchronous
\* stretch runs to the next await).
ScannerStep ==
    \/ ScanStart \/ WhileTest \/ FetchChildrenOk \/ FetchChildrenThrow
    \/ ForEachChild \/ DelayDone \/ ReportProgress
    \/ AfterItems \/ TemplatesDone \/ AfterTemplates \/ MediaDone \/ AfterMedia
    \/ RenderingsDone \/ AfterRenderings
    \/ DeepLoop \/ DeepFetchDone \/ DeepDelayDone \/ DeepProgress
    \/ BuildAndComplete \/ ScanCatch

NextScan == ScannerStep \/ Abort

\* Node's event loop settles every pending promise and timer, so the scanner
\* always takes its next step; abort() is the caller's choice.
ScanSpec == InitScan /\ [][NextScan]_vars /\ WF_vars(ScannerStep)

\* ------------------------------------------------------------------------
\* Properties of the scanner
\* ------------------------------------------------------------------------
ErrorsWith(message) == {i \in 1..Len(errors) : errors[i].message = message}
ErrorsAt(site) == {i \in 1..Len(errors) : errors[i].site = site}
TruncationCount == Cardinality(ErrorsWith("Max items limit reached"))
ChildFetchErrorCount == Cardinality(ErrorsAt("scanItems.catch"))
TerminalErrorCount == Cardinality(ErrorsAt("scan.catch"))
ValueIds(map) == UNION {Range(map[k]) : k \in DOMAIN map}

\* The scan ran to its end with every item of the tree in reach (unlimited
\* depth), no children fetch failed, nobody aborted and no callback threw.
UndisturbedFullScan ==
    /\ pc = "done"
    /\ maxDepth = -1
    /\ ~aborted
    /\ ~escaped
    /\ ChildFetchErrorCount = 0

C2_WitnessFailed == pc = "done" /\ status = "failed" /\ TerminalErrorCount = 1

\* C3 as stated: once a children fetch has thrown, every path that was in the
\* queue at that moment has been dequeued and fetched by the end of the scan.
C3_Original == pc = "done" => queuedAtFailure \subseteq fetched

\* The step in which a children fetch throws.
IsFetchThrowStep == pc = "awaitFetch" /\ pc' = "progress"

\* C3 (amended): a throwing children fetch appends exactly one error naming the
\* dequeued path, keeps the items and keeps the queue; the paths that were in
\* the queue are all dequeued and fetched unless the scan is aborted, reaches
\* maxItems or is ended by a throwing callback before their turn.
C3_FetchErrorIsolated ==
    /\ [][IsFetchThrowStep =>
            /\ Len(errors') = Len(errors) + 1
            /\ errors'[Len(errors')].path = currentPath
            /\ SubSeq(errors', 1, Len(errors)) = errors
            /\ items' = items
            /\ queue' = queue
            /\ status' = status]_vars
    /\ [](pc = "done" /\ ~aborted /\ ~escaped /\ TruncationCount = 0
            => queuedAtFailure \subseteq fetched)

C3_Witness ==
    /\ pc = "done"
    /\ ~aborted /\ ~escaped /\ TruncationCount = 0
    /\ queuedAtFailure # {}
    /\ Len(items) >= 2
    /\ status = "complete"

\* C4: after abort() no item is inserted; every scan that was aborted still
\* ends, in a terminal status, with the items it had at the abort; every id in
\* the value lists of childrenMap and templateUsage is a key of items, and
\* when the maps were built (status complete) templateUsage covers exactly the
\* items collected before the abort.
C4_AbortLeavesValidResult ==
    /\ [][aborted => items' = items]_vars
    /\ (aborted ~> pc = "done")
    /\ [](ValueIds(childrenMap) \subseteq Keys(items))
    /\ [](ValueIds(templateUsage) \subseteq Keys(items))
    /\ [](aborted => items = itemsAtAbort)
    /\ [](pc = "done" /\ aborted =>
            /\ status \in {"complete", "failed"}
            /\ status = "complete" => ValueIds(templateUsage) = Keys(itemsAtAbort))

C4_Witness ==
    /\ pc = "done"
    /\ aborted
    /\ status = "complete"
    /\ Len(items) >= 1
    /\ Len(items) < NumItems
    /\ TruncationCount = 0
    /\ ValueIds(childrenMap) # {}

\* ------------------------------------------------------------------------
\* XRayGraphBuilder (src/src/xray/graph.ts)
\* ------------------------------------------------------------------------
NumGraphItems == 3     \* the scans handed to the builder hold 0..NumGraphItems items
MaxNodesBound == 4     \* options.maxNodes ranges over 0..MaxNodesBound and the default

\* No scan is running: the scanner's variables rest at fixed values.
ScanIdle ==
    /\ par = [n \in Nodes |-> 0]
    /\ scoped = TRUE
    /\ untyped = {}
    /\ maxItems = NumItems /\ maxDepth = -1 /\ tier = 1
    /\ includeTemplates = FALSE /\ includeMedia = FALSE
    /\ includeRenderings = FALSE /\ hasProgress = FALSE
    /\ status = "pending" /\ phase = "items" /\ currentPath = <<>>
    /\ itemsScanned = 0 /\ errors = <<>> /\ items = <<>> /\ templates = <<>>
    /\ media = <<>> /\ renderings = <<>> /\ deepData = <<>>
    /\ childrenMap = EmptyMap /\ templateUsage = EmptyMap
    /\ renderingUsage = EmptyMap /\ aborted = FALSE /\ queue = <<>>
    /\ depth = 0 /\ children = <<>> /\ candidates = <<>> /\ pc = "idle"
    /\ fetched = {} /\ escaped = FALSE /\ itemsAtAbort = <<>>
    /\ queuedAtFailure = {}
    /\ sinceSleep = 0
    /\ deepLog = <<>>

Min(a, b) == IF a <= b THEN a ELSE b

\* for (const x of s) acc = Op(acc, x).  The comparison `next = next` makes
\* TLC compute each step's accumulator before the following step, as the
\* loop does, instead of nesting the steps in one deferred expression.
FoldSeq(Op(_, _), acc, s) ==
    LET RECURSIVE F(_, _)
        F(a, i) == IF i > Len(s) THEN a
                   ELSE LET next == Op(a, s[i])
                        IN IF next = next THEN F(next, i + 1) ELSE a
    IN F(acc, 1)

\* map.get(id) on a Map kept as the sequence of its values.
MapGet(m, id) == m[CHOOSE i \in 1..Len(m) : m[i].id = id]

\* String.prototype.toUpperCase on the GUIDs of the model: <<"id-b">> is the
\* lower-case spelling of the GUID <<"ID-B">>.
toUpperCase(guid) ==
    CASE guid = <<"id-a">> -> <<"ID-A">>
      [] guid = <<"id-b">> -> <<"ID-B">>
      [] guid = <<"id-c">> -> <<"ID-C">>
      [] guid = <<"media-1">> -> <<"MEDIA-1">>
      [] OTHER -> guid

\* DEFAULT_OPTIONS.maxNodes
DefaultMaxNodes == 1000
\* const maxDepth = 3 of buildFromCenter
CenterMaxDepth == 3

\* ---- the ScanResults handed to the builder ----
\* parentId of item n: '' for all ("flat"), the id of the item before it
\* ("chain"), or a path, as the scanner stores it ("scanned").
GraphParentId(shape, n) ==
    CASE shape = "flat" -> <<>>
      [] shape = "chain" -> IF n = 1 THEN <<>> ELSE IdOfNode(n - 1)
      [] shape = "scanned" -> RootPath

GraphItem(shape, n) ==
    [id |-> IdOfNode(n), templateId |-> TemplateIdOfNode(n),
     parentId |-> GraphParentId(shape, n)]

GraphItemLists ==
    {[n \in 1..k |-> GraphItem(shape, n)] :
        k \in 0..NumGraphItems, shape \in {"flat", "chain", "scanned"}}

GraphTemplateLists ==
    {<<>>,
     <<[id |-> <<"TPL-PAGE">>, baseTemplateIds |-> <<>>]>>,
     <<[id |-> <<"TPL-PAGE">>, baseTemplateIds |-> <<>>],
       [id |-> <<"TPL-FOLDER">>, baseTemplateIds |-> <<<<"TPL-PAGE">>, <<"TPL-BASE">>>>]>>}

\* deepData of page ID-A: its renderings and the GUIDs its field values hold.
GraphDeepLists ==
    {<<>>,
     <<[id |-> <<"ID-A">>,
        renderings |-> <<[renderingId |-> <<"RND-1">>, placeholder |-> "main",
                          dataSourceId |-> <<"ID-B">>]>>,
        fields |-> <<[value |-> <<<<"id-b">>, <<"MEDIA-1">>>>]>>]>>,
     <<[id |-> <<"ID-A">>,
        renderings |-> <<[renderingId |-> <<"RND-1">>, placeholder |-> "main",
                          dataSourceId |-> <<>>],
                         [renderingId |-> <<"RND-1">>, placeholder |-> "side",
                          dataSourceId |-> <<"ID-C">>],
                         [renderingId |-> <<"RND-9">>, placeholder |-> "main",
                          dataSourceId |-> <<"ID-B">>]>>,
        fields |-> <<[value |-> <<<<"ID-A">>>>], [value |-> <<>>]>>]>>}

\* Scans of five items for the centered mode: the items hang below one another
\* ("chain"), or each page up to the fourth has a rendering whose data source is
\* the next item, or page ID-A names ID-B in a field and nothing else links them.
CenterScans ==
    LET scanOf(its, deep) ==
            [scanId |-> "scan-1", items |-> its, templates |-> <<>>, media |-> <<>>,
             renderings |-> <<[id |-> <<"RND-1">>]>>, deepData |-> deep,
             childrenMap |-> BuildChildrenMap(its, EmptyMap)]
        sourceOf(n) == [renderingId |-> <<"RND-1">>, placeholder |-> "main",
                        dataSourceId |-> IdOfNode(n + 1)]
    IN {scanOf([n \in 1..5 |-> GraphItem("chain", n)], <<>>),
        scanOf([n \in 1..5 |-> GraphItem("flat", n)],
               [n \in 1..4 |-> [id |-> IdOfNode(n), renderings |-> <<sourceOf(n)>>,
                                 fields |-> <<>>]]),
        scanOf([n \in 1..2 |-> GraphItem("flat", n)],
               <<[id |-> <<"ID-A">>, renderings |-> <<>>,
                  fields |-> <<[value |-> <<<<"ID-B">>>>]>>]>>)}

\* Deep data exists only for items of the scan.
GraphScans ==
    {scan \in
        {[scanId |-> "scan-1", items |-> its, templates |-> tpls, media |-> med,
          renderings |-> rnds, deepData |-> deep,
          childrenMap |-> BuildChildrenMap(its, EmptyMap)] :
            its \in GraphItemLists, tpls \in GraphTemplateLists,
            med \in {<<>>, <<[id |-> <<"MEDIA-1">>]>>},
            rnds \in {<<>>, <<[id |-> <<"RND-1">>]>>},
            deep \in GraphDeepLists} :
        Keys(scan.deepData) \subseteq Keys(scan.items)}
    \cup CenterScans

\* { ...DEFAULT_OPTIONS, ...options }
GraphOptionChoices ==
    {[nodeTypes |-> types, maxNodes |-> mx, centerOn |-> c, includeEdges |-> ie] :
        types \in {{"item", "template", "media", "rendering", "placeholder"},
                   {"item"}, {"item", "rendering"}, {"placeholder"},
                   {"template", "media", "rendering", "placeholder"}},
        mx \in (0..MaxNodesBound) \cup {DefaultMaxNodes},
        c \in {<<>>, <<"ID-A">>, <<"ID-B">>, <<"MEDIA-1">>},
        ie \in BOOLEAN}

\* ---- the builder ----
shouldIncludeType(o, type) == type \in o.nodeTypes

addNode(g, id, type) ==
    IF id \in Keys(g.nodes) THEN g
    ELSE [g EXCEPT !.nodes = Append(@, [id |-> id, type |-> type])]

addEdge(g, source, target, type) ==
    IF [source |-> source, target |-> target, type |-> type] \in Range(g.edges) THEN g
    ELSE [g EXCEPT !.edges = Append(@, [source |-> source, target |-> target,
                                        type |-> type])]

\* `ph:${rendering.placeholder}`
PlaceholderId(placeholder) == <<"ph:", placeholder>>

\* buildFull(), lines 190-304, on the builder state g = [nodes, edges].
buildFull(scan, o) ==
    LET itemStep(g, item) ==
            LET a == addNode(g, item.id, "item")
                b == IF item.parentId # <<>> /\ item.parentId \in Keys(scan.items)
                     THEN addEdge(a, item.parentId, item.id, "parent-of") ELSE a
            IN IF shouldIncludeType(o, "template") /\ item.templateId # <<>>
               THEN addEdge(b, item.id, item.templateId, "instance-of") ELSE b
        tplStep(g, t) ==
            FoldSeq(LAMBDA h, baseId :
                        IF baseId \in Keys(scan.templates)
                        THEN addEdge(h, t.id, baseId, "inherits") ELSE h,
                    addNode(g, t.id, "template"), t.baseTemplateIds)
        useStep(pageId, g, r) ==
            IF r.renderingId \in Keys(scan.renderings)
            THEN LET a == addEdge(g, pageId, r.renderingId, "uses-rendering")
                     b == IF shouldIncludeType(o, "placeholder")
                          THEN addNode(a, PlaceholderId(r.placeholder), "placeholder")
                          ELSE a
                 IN IF r.dataSourceId # <<>> /\ r.dataSourceId \in Keys(scan.items)
                    THEN addEdge(b, r.renderingId, r.dataSourceId, "datasource") ELSE b
            ELSE g
        refStep(itemId, g, guid) ==
            LET targetId == toUpperCase(guid)
            IN IF targetId \in Keys(scan.items)
               THEN addEdge(g, itemId, targetId, "references")
               ELSE IF targetId \in Keys(scan.media)
                    THEN addEdge(g, itemId, targetId, "uses-media") ELSE g
        g0 == [nodes |-> <<>>, edges |-> <<>>]
        g1 == IF shouldIncludeType(o, "item") THEN FoldSeq(itemStep, g0, scan.items) ELSE g0
        g2 == IF shouldIncludeType(o, "template")
              THEN FoldSeq(tplStep, g1, scan.templates) ELSE g1
        g3 == IF shouldIncludeType(o, "media")
              THEN FoldSeq(LAMBDA g, m : addNode(g, m.id, "media"), g2, scan.media) ELSE g2
        g4 == IF shouldIncludeType(o, "rendering")
              THEN FoldSeq(LAMBDA g, d :
                               FoldSeq(LAMBDA h, r : useStep(d.id, h, r), g, d.renderings),
                           FoldSeq(LAMBDA g, r : addNode(g, r.id, "rendering"),
                                   g3, scan.renderings),
                           scan.deepData)
              ELSE g3
    IN FoldSeq(LAMBDA g, d :
                   FoldSeq(LAMBDA h, f :
                               FoldSeq(LAMBDA k, guid : refStep(d.id, k, guid), h, f.value),
                           g, d.fields),
               g4, scan.deepData)

\* One iteration of buildFromCenter's while loop for an id not visited yet,
\* lines 93-183, on s = [g, queue].
centerVisit(scan, o, s0, id, atDepth) ==
    LET push(s, qid) == [s EXCEPT !.queue = Append(@, [id |-> qid, depth |-> atDepth + 1])]
        node(s, nid, type) == [s EXCEPT !.g = addNode(@, nid, type)]
        edge(s, src, tgt, type) == [s EXCEPT !.g = addEdge(@, src, tgt, type)]
        renderingStep(item, s, r) ==
            LET a == IF r.renderingId \in Keys(scan.renderings)
                     THEN LET n == edge(node(s, r.renderingId, "rendering"),
                                        item.id, r.renderingId, "uses-rendering")
                          IN IF shouldIncludeType(o, "placeholder")
                             THEN edge(node(n, PlaceholderId(r.placeholder), "placeholder"),
                                       r.renderingId, PlaceholderId(r.placeholder),
                                       "datasource")
                             ELSE n
                     ELSE s
            IN IF r.dataSourceId # <<>> /\ r.dataSourceId \in Keys(scan.items)
               THEN edge(push(a, r.dataSourceId), r.renderingId, r.dataSourceId, "datasource")
               ELSE a
        itemBlock(item) ==
            LET a == node(s0, item.id, "item")
                b == IF shouldIncludeType(o, "template")
                        /\ item.templateId \in Keys(scan.templates)
                     THEN edge(node(a, item.templateId, "template"),
                               item.id, item.templateId, "instance-of")
                     ELSE a
                c == IF item.parentId # <<>> /\ atDepth < CenterMaxDepth
                        /\ item.parentId \in Keys(scan.items)
                     THEN edge(push(b, item.parentId), item.parentId, item.id, "parent-of")
                     ELSE b
                kids == IF id \in DOMAIN scan.childrenMap THEN scan.childrenMap[id] ELSE <<>>
                d == FoldSeq(LAMBDA s, childId :
                                 IF atDepth < CenterMaxDepth THEN push(s, childId) ELSE s,
                             c, kids)
            IN IF id \in Keys(scan.deepData) /\ shouldIncludeType(o, "rendering")
               THEN FoldSeq(LAMBDA s, r : renderingStep(item, s, r), d,
                            MapGet(scan.deepData, id).renderings)
               ELSE d
        s1 == IF id \in Keys(scan.items) /\ shouldIncludeType(o, "item")
              THEN itemBlock(MapGet(scan.items, id)) ELSE s0
    IN IF id \in Keys(scan.media) /\ shouldIncludeType(o, "media")
       THEN node(s1, id, "media") ELSE s1

\* buildFromCenter(centerId), lines 83-185.
buildFromCenter(scan, o, centerId) ==
    LET RECURSIVE Loop(_, _)
        Loop(s, visited) ==
            IF ~(s.queue # <<>> /\ Len(s.g.nodes) < o.maxNodes) THEN s.g
            ELSE LET head == Head(s.queue)
                     rest == [s EXCEPT !.queue = Tail(@)]
                 IN IF head.id \in visited THEN Loop(rest, visited)
                    ELSE Loop(centerVisit(scan, o, rest, head.id, head.depth),
                              visited \cup {head.id})
    IN Loop([g |-> [nodes |-> <<>>, edges |-> <<>>],
             queue |-> <<[id |-> centerId, depth |-> 0]>>], {})

\* typePriority of prioritizeNodes.
typePriority(type) ==
    CASE type = "item" -> 5 [] type = "template" -> 4 [] type = "rendering" -> 3
      [] type = "media" -> 2 [] type = "placeholder" -> 1

\* connectionCount.get(id) || 0
connectionCount(edges, id) ==
    Cardinality({i \in 1..Len(edges) : edges[i].source = id})
    + Cardinality({i \in 1..Len(edges) : edges[i].target = id})

\* A comparator that looks at the type alone.
sortsBefore_TypeOnly(edges, a, b) == typePriority(a.type) > typePriority(b.type)

\* The comparator of prioritizeNodes is negative: a sorts before b.
sortsBefore(edges, a, b) ==
    \/ typePriority(a.type) > typePriority(b.type)
    \/ /\ typePriority(a.type) = typePriority(b.type)
       /\ connectionCount(edges, a.id) > connectionCount(edges, b.id)

\* Array.prototype.sort with that comparator: a stable sort.
sortNodes(nodes, edges) ==
    FoldSeq(LAMBDA sorted, x :
                LET before == {i \in 1..Len(sorted) : sortsBefore(edges, x, sorted[i])}
                    at == IF before = {} THEN Len(sorted) + 1
                          ELSE CHOOSE i \in before : \A j \in before : i <= j
                IN SubSeq(sorted, 1, at - 1) \o <<x>> \o SubSeq(sorted, at, Len(sorted)),
            <<>>, nodes)

\* A variant of prioritizeNodes that keeps one node more than the limit.
prioritizeNodes_KeepsOneMore(nodes, edges, limit) ==
    SubSeq(sortNodes(nodes, edges), 1, Min(limit + 1, Len(nodes)))

\* prioritizeNodes(nodes, limit), lines 309-339: sort, then slice(0, limit)
\* for a limit that is not negative.
prioritizeNodes(nodes, edges, limit) ==
    SubSeq(sortNodes(nodes, edges), 1, Min(limit, Len(nodes)))

\* build(), lines 49-78.
build(scan, o) ==
    LET g == IF o.centerOn # <<>> THEN buildFromCenter(scan, o, o.centerOn)
             ELSE buildFull(scan, o)
        over == Len(g.nodes) > o.maxNodes
        nodeArray == IF over THEN prioritizeNodes(g.nodes, g.edges, o.maxNodes) ELSE g.nodes
        edges == IF over
                 THEN SelectSeq(g.edges, LAMBDA e : e.source \in Keys(nodeArray)
                                                    /\ e.target \in Keys(nodeArray))
                 ELSE g.edges
    IN [scanId |-> scan.scanId,
        nodes |-> nodeArray,
        edges |-> IF o.includeEdges THEN edges ELSE <<>>,
        stats |-> [nodeCount |-> Len(nodeArray), edgeCount |-> Len(edges)]]

InitGraph ==
    /\ ScanIdle
    /\ AnalyzerIdle
    /\ ServerIdle
    /\ gScan \in GraphScans
    /\ gOptions \in GraphOptionChoices
    /\ gGraph = "none"
    /\ gPc = "ready"

\* buildKnowledgeGraph(scan, options), lines 401-407.
BuildGraph ==
    /\ gPc = "ready"
    /\ gGraph' = build(gScan, gOptions)
    /\ gPc' = "returned"
    /\ UNCHANGED <<gScan, gOptions, scanVars, analyzerVars, serverVars>>

NextGraph == BuildGraph

GraphSpec == InitGraph /\ [][NextGraph]_vars

\* ------------------------------------------------------------------------
\* Properties of the graph builder
\* ------------------------------------------------------------------------
NodeIds(graph) == Keys(graph.nodes)

\* The ids of the entities of a scan that pass the nodeTypes filter: the
\* scan's items, templates, media and renderings of a requested type, and,
\* when renderings and placeholders are both requested, the placeholders in
\* which a page uses a rendering of the scan.
UsedPlaceholders(scan) ==
    {PlaceholderId(d.renderings[i].placeholder) :
        <<d, i>> \in {<<d, i>> \in Range(scan.deepData) \X (1..3) :
                        /\ i <= Len(d.renderings)
                        /\ d.renderings[i].renderingId \in Keys(scan.renderings)}}

CandidateIds(scan, o) ==
    (IF "item" \in o.nodeTypes THEN Keys(scan.items) ELSE {})
    \cup (IF "template" \in o.nodeTypes THEN Keys(scan.templates) ELSE {})
    \cup (IF "media" \in o.nodeTypes THEN Keys(scan.media) ELSE {})
    \cup (IF "rendering" \in o.nodeTypes THEN Keys(scan.renderings) ELSE {})
    \cup (IF {"rendering", "placeholder"} \subseteq o.nodeTypes
          THEN UsedPlaceholders(scan) ELSE {})

\* C5 as stated: in every returned graph, every edge's source and target are
\* ids of nodes of the returned nodes list.
C5_EdgesReferenceNodes ==
    gPc = "returned" =>
        \A i \in 1..Len(gGraph.edges) :
            /\ gGraph.edges[i].source \in NodeIds(gGraph)
            /\ gGraph.edges[i].target \in NodeIds(gGraph)

IsGuid(part) == Len(part) = 1

\* field.value.match(guidPattern) || []
GuidMatches(value) == SelectSeq(value, IsGuid)

\* value.startsWith('{') && value.endsWith('}')
InBraces(value) ==
    /\ value # <<>>
    /\ IsGuid(value[1]) \/ value[1][1] \in {"json", "braces"}
    /\ IsGuid(value[Len(value)]) \/ value[Len(value)][1] \in {"json", "braces"}

\* JSON.parse(value) returns
JsonParses(value) == Len(value) = 1 /\ ~IsGuid(value[1]) /\ value[1][1] = "json"

\* isValidDate(value), lines 532-540
isValidDate(value) == Len(value) = 1 /\ ~IsGuid(value[1]) /\ value[1][1] = "date"

\* isValidLinkField(value), lines 542-556
isValidLinkField(value) ==
    \/ \E i \in 1..Len(value) : ~IsGuid(value[i]) /\ value[i][1] = "link"
    \/ Len(value) = 1 /\ IsGuid(value[1])
    \/ value # <<>> /\ ~IsGuid(value[1]) /\ value[1][1] = "url"

\* type?.toLowerCase().includes(word) for the field types of the model
TypeIncludes(type, word) ==
    \/ word = "date" /\ type \in {"Date", "Datetime"}
    \/ word = "link" /\ type \in {"General Link", "Droplink"}

\* name.toLowerCase() for the names of the model
toLowerCase(name) ==
    CASE name = "Home" -> "home" [] name \in {"News", "NEWS"} -> "news" [] OTHER -> name

\* templateName.toLowerCase() includes 'folder', 'bucket' or 'container'
IsFolderLike(templateName) == templateName \in {"Folder", "Item Bucket", "Container"}

\* 1024 * 1024
MB == 1048576

\* addIssue(issue), lines 524-529: the id is `issue-${++issueCounter}`.
addIssue(issues, severity, category, title, itemId, metadata) ==
    Append(issues, [id |-> Len(issues) + 1, severity |-> severity,
                    category |-> category, title |-> title, itemId |-> itemId,
                    metadata |-> metadata])

\* detectOrphans(), lines 59-96.  expectedParentPath is non-empty iff the
\* path has at least two segments.
detectOrphans(scan, issues) ==
    FoldSeq(LAMBDA acc, item :
                LET a == IF /\ item.parentId # <<>>
                            /\ item.parentId \notin Keys(scan.items)
                            /\ Len(item.path) >= 2
                         THEN addIssue(acc, "warning", "orphan", "Orphaned item",
                                       item.id, <<>>)
                         ELSE acc
                IN IF item.path # <<>> /\ item.name # item.path[Len(item.path)]
                   THEN addIssue(a, "info", "orphan", "Path mismatch", item.id, <<>>)
                   ELSE a,
            issues, scan.items)

\* detectUnusedTemplates(), lines 100-121.
detectUnusedTemplates(scan, issues) ==
    FoldSeq(LAMBDA acc, tpl :
                LET usage == IF tpl.id \in DOMAIN scan.templateUsage
                             THEN scan.templateUsage[tpl.id] ELSE <<>>
                    isBaseTemplate == \E i \in 1..Len(scan.templates) :
                                         tpl.id \in Range(scan.templates[i].baseTemplateIds)
                IN IF Len(usage) = 0 /\ ~isBaseTemplate
                   THEN addIssue(acc, "info", "unused-template", "Unused template",
                                 tpl.id, <<>>)
                   ELSE acc,
            issues, scan.templates)

\* detectUnusedRenderings(), lines 125-142.
detectUnusedRenderings(scan, issues) ==
    FoldSeq(LAMBDA acc, rnd :
                LET usage == IF rnd.id \in DOMAIN scan.renderingUsage
                             THEN scan.renderingUsage[rnd.id] ELSE <<>>
                IN IF Len(usage) = 0
                   THEN addIssue(acc, "info", "unused-rendering", "Unused rendering",
                                 rnd.id, <<>>)
                   ELSE acc,
            issues, scan.renderings)

\* detectBrokenLinks(), lines 146-193.
detectBrokenLinks(scan, issues) ==
    LET guidStep(itemId, acc, guid) ==
            IF /\ toUpperCase(guid) \notin Keys(scan.items)
               /\ toUpperCase(guid) \notin Keys(scan.media)
               /\ toUpperCase(guid) \notin Keys(scan.templates)
            THEN addIssue(acc, "warning", "broken-link", "Broken link", itemId, <<guid>>)
            ELSE acc
        sourceStep(itemId, acc, r) ==
            IF r.dataSourceId # <<>> /\ r.dataSourceId \notin Keys(scan.items)
            THEN addIssue(acc, "warning", "broken-link", "Broken data source", itemId,
                          <<r.dataSourceId>>)
            ELSE acc
    IN FoldSeq(LAMBDA acc, dd :
                   FoldSeq(LAMBDA b, r : sourceStep(dd.id, b, r),
                           FoldSeq(LAMBDA b, field :
                                       FoldSeq(LAMBDA c, guid : guidStep(dd.id, c, guid),
                                               b, GuidMatches(field.value)),
                                   acc, dd.fields),
                           dd.renderings),
               issues, scan.deepData)

\* The key of an item in the groups Map, `${item.templateId}:${item.name.toLowerCase()}`.
groupKey(item) == item.templateId \o <<":", toLowerCase(item.name)>>

\* detectDuplicates() with the names compared as they are written.
detectDuplicates_CaseSensitive(scan, issues) ==
    LET groups == FoldSeq(LAMBDA acc, item :
                              LET key == item.templateId \o <<":", item.name>>
                              IN MapSet(acc, [id |-> key,
                                              itemIds |-> Append(IF key \in Keys(acc)
                                                                 THEN MapGet(acc, key).itemIds
                                                                 ELSE <<>>, item.id)]),
                          <<>>, scan.items)
    IN FoldSeq(LAMBDA acc, group :
                   IF Len(group.itemIds) > 1
                   THEN addIssue(acc, "info", "duplicate", "Duplicate items", <<>>,
                                 [itemIds |-> group.itemIds,
                                  paths |-> [i \in 1..Len(group.itemIds) |->
                                                MapGet(scan.items, group.itemIds[i]).path]])
                   ELSE acc,
               issues, groups)

\* detectDuplicates(), lines 197-228: one pass fills the groups Map, a second
\* pass adds an issue for every group of more than one id, with
\* metadata {count, paths, itemIds}.
detectDuplicates(scan, issues) ==
    LET groups == FoldSeq(LAMBDA acc, item :
                              LET key == groupKey(item)
                              IN MapSet(acc, [id |-> key,
                                              itemIds |-> Append(IF key \in Keys(acc)
                                                                 THEN MapGet(acc, key).itemIds
                                                                 ELSE <<>>, item.id)]),
                          <<>>, scan.items)
    IN FoldSeq(LAMBDA acc, group :
                   IF Len(group.itemIds) > 1
                   THEN addIssue(acc, "info", "duplicate", "Duplicate items", <<>>,
                                 [itemIds |-> group.itemIds,
                                  paths |-> [i \in 1..Len(group.itemIds) |->
                                                MapGet(scan.items, group.itemIds[i]).path]])
                   ELSE acc,
               issues, groups)

\* detectSecurityIssues(), lines 232-268.
detectSecurityIssues(scan, issues) ==
    FoldSeq(LAMBDA acc, dd :
                IF dd.security = <<>> THEN acc
                ELSE LET a == IF {"Everyone", ":write"} \subseteq Range(dd.security)
                              THEN addIssue(acc, "critical", "security",
                                            "Overly permissive", dd.id, <<>>)
                              ELSE acc
                     IN IF {"ar|", "|pd|"} \subseteq Range(dd.security)
                        THEN addIssue(a, "info", "security", "Complex security",
                                      dd.id, <<>>)
                        ELSE a,
            issues, scan.deepData)

\* detectDeepNesting(), lines 272-300.
detectDeepNesting(scan, issues) ==
    FoldSeq(LAMBDA acc, item :
                IF Len(item.path) > 15
                THEN addIssue(acc, "critical", "deep-nesting", "Critically deep",
                              item.id, <<>>)
                ELSE IF Len(item.path) > 10
                     THEN addIssue(acc, "warning", "deep-nesting", "Deeply nested",
                                   item.id, <<>>)
                     ELSE acc,
            issues, scan.items)

\* detectLargeMedia_Inclusive() with a file of exactly 5MB counted as large.
detectLargeMedia_Inclusive(scan, issues) ==
    FoldSeq(LAMBDA acc, med :
                IF med.size > 20 * MB
                THEN addIssue(acc, "critical", "large-media", "Very large file",
                              med.id, <<>>)
                ELSE IF med.size >= 5 * MB
                     THEN addIssue(acc, "warning", "large-media", "Large file",
                                   med.id, <<>>)
                     ELSE acc,
            issues, scan.media)

\* detectLargeMedia(), lines 304-332.
detectLargeMedia(scan, issues) ==
    FoldSeq(LAMBDA acc, med :
                IF med.size > 20 * MB
                THEN addIssue(acc, "critical", "large-media", "Very large file",
                              med.id, <<>>)
                ELSE IF med.size > 5 * MB
                     THEN addIssue(acc, "warning", "large-media", "Large file",
                                   med.id, <<>>)
                     ELSE acc,
            issues, scan.media)

\* detectStaleContent(), lines 336-370, at the day `now`.
detectStaleContent(scan, now, issues) ==
    FoldSeq(LAMBDA acc, item :
                IF item.updated = <<>> THEN acc
                ELSE IF item.updated[1] < now - 730
                     THEN addIssue(acc, "warning", "stale-content", "Very stale",
                                   item.id, <<>>)
                     ELSE IF item.updated[1] < now - 365
                          THEN addIssue(acc, "info", "stale-content", "Stale content",
                                        item.id, <<>>)
                          ELSE acc,
            issues, scan.items)

\* The reference graph of detectCircularReferences(), lines 376-391: a Map
\* from item id to the upper-cased GUIDs of its field values, for the items
\* that have any.
refGraphOf(scan) ==
    FoldSeq(LAMBDA acc, dd :
                LET refs == FoldSeq(LAMBDA r, field :
                                        r \o [i \in 1..Len(GuidMatches(field.value)) |->
                                                toUpperCase(GuidMatches(field.value)[i])],
                                    <<>>, dd.fields)
                IN IF Len(refs) > 0 THEN MapSet(acc, [id |-> dd.id, refs |-> refs]) ELSE acc,
            <<>>, scan.deepData)

\* path.indexOf(x), one-based
IndexOf(path, x) == CHOOSE i \in 1..Len(path) : path[i] = x /\ \A j \in 1..(i - 1) : path[j] # x

\* dfs(node, path), lines 398-415, on st = [visited, recursionStack, path, cycles].
RECURSIVE dfs(_, _, _)
dfs(refGraph, node, st) ==
    LET entered == [st EXCEPT !.visited = @ \cup {node},
                              !.recursionStack = @ \cup {node},
                              !.path = Append(@, node)]
        neighbors == IF node \in Keys(refGraph) THEN MapGet(refGraph, node).refs ELSE <<>>
        after == FoldSeq(LAMBDA s, neighbor :
                             IF neighbor \notin s.visited THEN dfs(refGraph, neighbor, s)
                             ELSE IF neighbor \in s.recursionStack
                                  THEN [s EXCEPT !.cycles =
                                           Append(@, SubSeq(s.path, IndexOf(s.path, neighbor),
                                                            Len(s.path)))]
                                  ELSE s,
                         entered, neighbors)
    IN [after EXCEPT !.path = SubSeq(@, 1, Len(@) - 1),
                     !.recursionStack = @ \ {node}]

\* The cycles detectCircularReferences() collects, lines 393-421.
cyclesOf(refGraph) ==
    FoldSeq(LAMBDA st, entry :
                IF entry.id \notin st.visited THEN dfs(refGraph, entry.id, st) ELSE st,
            [visited |-> {}, recursionStack |-> {}, path |-> <<>>, cycles |-> <<>>],
            refGraph).cycles

\* detectCircularReferences(), lines 374-436.
detectCircularReferences(scan, issues) ==
    FoldSeq(LAMBDA acc, cycle :
                addIssue(acc, "warning", "circular-reference",
                         "Circular reference detected", <<>>, cycle),
            issues, cyclesOf(refGraphOf(scan)))

\* detectEmptyContainers(), lines 440-460.
detectEmptyContainers(scan, issues) ==
    FoldSeq(LAMBDA acc, item :
                IF IsFolderLike(item.templateName) /\ ~item.hasChildren
                THEN addIssue(acc, "info", "empty-container", "Empty folder", item.id, <<>>)
                ELSE acc,
            issues, scan.items)

\* detectInvalidFields(), lines 464-520.
detectInvalidFields(scan, issues) ==
    LET fieldStep(itemId, acc, field) ==
            LET a == IF /\ TypeIncludes(field.type, "date") /\ field.value # <<>>
                        /\ ~isValidDate(field.value)
                     THEN addIssue(acc, "warning", "invalid-field", "Invalid date",
                                   itemId, <<>>)
                     ELSE acc
                b == IF /\ TypeIncludes(field.type, "link") /\ field.value # <<>>
                        /\ ~isValidLinkField(field.value)
                     THEN addIssue(a, "info", "invalid-field", "Malformed link",
                                   itemId, <<>>)
                     ELSE a
            IN IF InBraces(field.value) /\ ~JsonParses(field.value)
               THEN addIssue(b, "warning", "invalid-field", "Invalid JSON", itemId, <<>>)
               ELSE b
    IN FoldSeq(LAMBDA acc, dd :
                   FoldSeq(LAMBDA b, field : fieldStep(dd.id, b, field), acc, dd.fields),
               issues, scan.deepData)

\* The number of issues of a category or severity (the counting loops of
\* calculateStats and calculateHealthScore).
CountWhere(issues, key, value) ==
    Cardinality({i \in 1..Len(issues) : issues[i][key] = value})

\* calculateStats(), lines 557-615 (the counters; the depth statistics and
\* itemsPerTemplate are left out).
calculateStats(scan, issues) ==
    [totalItems |-> Len(scan.items),
     totalTemplates |-> Len(scan.templates),
     totalMedia |-> Len(scan.media),
     totalRenderings |-> Len(scan.renderings),
     orphanedItems |-> CountWhere(issues, "category", "orphan"),
     unusedTemplates |-> CountWhere(issues, "category", "unused-template"),
     unusedRenderings |-> CountWhere(issues, "category", "unused-rendering"),
     brokenLinks |-> CountWhere(issues, "category", "broken-link"),
     duplicates |-> CountWhere(issues, "category", "duplicate"),
     securityIssues |-> CountWhere(issues, "category", "security"),
     deeplyNested |-> CountWhere(issues, "category", "deep-nesting"),
     largeMedia |-> CountWhere(issues, "category", "large-media"),
     staleContent |-> CountWhere(issues, "category", "stale-content"),
     circularRefs |-> CountWhere(issues, "category", "circular-reference"),
     emptyContainers |-> CountWhere(issues, "category", "empty-container"),
     invalidFields |-> CountWhere(issues, "category", "invalid-field")]

Max(a, b) == IF a >= b THEN a ELSE b

\* Twice the score of calculateHealthScore() before rounding, lines 618-641:
\* the info deduction is half a point, so the score is kept in half points.
scoreHalves(stats, issues) ==
    200
    - 2 * Min(CountWhere(issues, "severity", "critical") * 5, 40)
    - 2 * Min(CountWhere(issues, "severity", "warning") * 2, 30)
    - Min(CountWhere(issues, "severity", "info"), 20)
    + (IF stats.orphanedItems = 0 THEN 10 ELSE 0)
    + (IF stats.brokenLinks = 0 THEN 10 ELSE 0)
    + (IF stats.unusedTemplates = 0 THEN 10 ELSE 0)
    + (IF stats.securityIssues = 0 THEN 10 ELSE 0)

\* Math.round of a number of half points: the nearest integer, halves up.
MathRound(halves) == (halves + 1) \div 2

\* calculateHealthScore(stats), lines 617-645.
calculateHealthScore(stats, issues) ==
    Max(0, Min(100, MathRound(scoreHalves(stats, issues))))

\* A variant of getHealthGrade whose A boundary is exclusive.
getHealthGrade_ExclusiveA(score) ==
    IF score > 90 THEN "A" ELSE IF score >= 80 THEN "B" ELSE IF score >= 70 THEN "C"
    ELSE IF score >= 60 THEN "D" ELSE "F"

\* getHealthGrade(score), lines 647-653.
getHealthGrade(score) ==
    IF score >= 90 THEN "A" ELSE IF score >= 80 THEN "B" ELSE IF score >= 70 THEN "C"
    ELSE IF score >= 60 THEN "D" ELSE "F"

\* analyze(), lines 28-55, run at the day `now`.
analyze(scan, now) ==
    LET issues ==
            detectInvalidFields(scan,
            detectEmptyContainers(scan,
            detectCircularReferences(scan,
            detectStaleContent(scan, now,
            detectLargeMedia(scan,
            detectDeepNesting(scan,
            detectSecurityIssues(scan,
            detectDuplicates(scan,
            detectBrokenLinks(scan,
            detectUnusedRenderings(scan,
            detectUnusedTemplates(scan,
            detectOrphans(scan, <<>>))))))))))))
        stats == calculateStats(scan, issues)
        healthScore == calculateHealthScore(stats, issues)
    IN [scanId |-> scan.scanId,
        analyzedAt |-> now,
        healthScore |-> healthScore,
        healthGrade |-> getHealthGrade(healthScore),
        issues |-> issues,
        stats |-> stats]

\* ------------------------------------------------------------------------
\* The report generator (src/xray/reports.ts, as printed in
\* docs/reference/api/classes/UmbracoAdapter.md)
\* ------------------------------------------------------------------------
\* const priorityOrder = { high: 0, medium: 1, low: 2 }
priorityOrder(priority) ==
    CASE priority = "high" -> 0 [] priority = "medium" -> 1 [] priority = "low" -> 2

\* One step of recommendations.sort(...) that places an entry before the
\* entries of its own priority.
insertRecommendation_Unstable(sorted, rec) ==
    LET k == Cardinality({i \in 1..Len(sorted) :
                            priorityOrder(sorted[i].priority) < priorityOrder(rec.priority)})
    IN SubSeq(sorted, 1, k) \o <<rec>> \o SubSeq(sorted, k + 1, Len(sorted))

\* One step of recommendations.sort((a, b) => priorityOrder[a.priority] -
\* priorityOrder[b.priority]): Array.prototype.sort is stable, so an entry
\* goes after the entries already placed that do not compare greater.
insertRecommendation(sorted, rec) ==
    LET k == Cardinality({i \in 1..Len(sorted) :
                            priorityOrder(sorted[i].priority) <= priorityOrder(rec.priority)})
    IN SubSeq(sorted, 1, k) \o <<rec>> \o SubSeq(sorted, k + 1, Len(sorted))

\* The rules of generateRecommendations in the order of their if statements:
\* the counter tested, the priority and the title of the entry pushed.
RecommendationRules ==
    <<<<"securityIssues", "high", "Fix Security Vulnerabilities">>,
      <<"brokenLinks", "high", "Repair Broken Links">>,
      <<"largeMedia", "high", "Optimize Large Media Files">>,
      <<"deeplyNested", "medium", "Flatten Content Structure">>,
      <<"orphanedItems", "medium", "Clean Up Orphaned Items">>,
      <<"staleContent", "medium", "Review Stale Content">>,
      <<"unusedTemplates", "low", "Remove Unused Templates">>,
      <<"unusedRenderings", "low", "Remove Unused Renderings">>,
      <<"emptyContainers", "low", "Clean Up Empty Folders">>,
      <<"duplicates", "low", "Review Duplicate Items">>>>

\* generateRecommendations(analysis): the pushes, then the sort.
generateRecommendations(analysis) ==
    LET pushed == FoldSeq(LAMBDA recs, rule :
                              IF analysis.stats[rule[1]] > 0
                              THEN Append(recs, [priority |-> rule[2], title |-> rule[3],
                                                 affectedItems |-> analysis.stats[rule[1]]])
                              ELSE recs,
                          <<>>, RecommendationRules)
    IN FoldSeq(insertRecommendation, <<>>, pushed)

\* generateReport(analysis, instanceUrl, scanDuration); generatedAt is the
\* clock read.
generateReport(analysis, instanceUrl, scanDuration, now) ==
    [scanId |-> analysis.scanId,
     generatedAt |-> now,
     instanceUrl |-> instanceUrl,
     healthScore |-> analysis.healthScore,
     healthGrade |-> analysis.healthGrade,
     scanDuration |-> scanDuration,
     stats |-> analysis.stats,
     issues |-> analysis.issues,
     recommendations |-> generateRecommendations(analysis)]

\* ---- the scans handed to the analyzer ----
MaxHugeMedia == 9      \* media files above 20MB in a scan: 0..MaxHugeMedia
MaxBigMedia == 16      \* media files above 5MB, up to 20MB: 0..MaxBigMedia

\* The day the analysis runs.
Today == 1000

Ordinal == <<"01", "02", "03", "04", "05", "06", "07", "08", "09", "10", "11", "12",
             "13", "14", "15", "16", "17", "18", "19", "20", "21", "22", "23", "24">>

ContentPath == <<"sitecore", "content">>

AnItem(id, name, path, parentId, templateId, templateName, hasChildren, updated) ==
    [id |-> id, name |-> name, path |-> path, parentId |-> parentId,
     templateId |-> templateId, templateName |-> templateName,
     hasChildren |-> hasChildren, updated |-> updated]

PageItem(id, name, path, parentId, updated) ==
    AnItem(id, name, path, parentId, <<"TPL-PAGE">>, "Article Page", FALSE, updated)

AField(name, value, type) == [name |-> name, value |-> value, type |-> type]

\* What each finding of the model adds to a sound two-page scan.
FindingNames ==
    {"orphan", "scannedParent", "mismatch", "duplicate", "emptyFolder", "deep",
     "veryDeep", "stale", "veryStale", "unusedTemplate", "unusedRendering",
     "brokenLink", "brokenSource", "everyoneWrite", "complexSecurity", "badDate",
     "badLink", "badJson", "cycle", "triplicate", "sameName", "topLevel"}

When(cond, s) == IF cond THEN s ELSE <<>>

ScanItems(f) ==
    <<AnItem(<<"ID-A">>, "Home", ContentPath \o <<"Home">>, <<>>, <<"TPL-PAGE">>,
             "Article Page", TRUE, <<Today>>),
      PageItem(<<"ID-B">>, "News", ContentPath \o <<"Home", "News">>, <<"ID-A">>,
               <<Today - 365>>)>>
    \o When("orphan" \in f,
            <<PageItem(<<"ID-C">>, "lost", ContentPath \o <<"lost">>, <<"ID-GONE">>, <<>>)>>)
    \o When("scannedParent" \in f,
            <<PageItem(<<"ID-D">>, "kid", ContentPath \o <<"Home", "kid">>,
                       ContentPath \o <<"Home">>, <<>>)>>)
    \o When("mismatch" \in f,
            <<PageItem(<<"ID-E">>, "Landing", ContentPath \o <<"Home", "landing-page">>,
                       <<"ID-A">>, <<>>)>>)
    \o When("duplicate" \in f,
            <<PageItem(<<"ID-F">>, "news", ContentPath \o <<"news">>, <<>>, <<>>)>>)
    \o When("triplicate" \in f,
            <<PageItem(<<"ID-L">>, "NEWS", ContentPath \o <<"Home", "NEWS">>, <<"ID-A">>,
                       <<>>)>>)
    \o When("sameName" \in f,
            <<AnItem(<<"ID-M">>, "News", ContentPath \o <<"archive", "News">>, <<>>,
                     <<"TPL-BASE">>, "Base", FALSE, <<>>),
              AnItem(<<"ID-N">>, "news", ContentPath \o <<"archive", "news">>, <<>>,
                     <<"TPL-BASE">>, "Base", FALSE, <<>>)>>)
    \o When("topLevel" \in f,
            <<AnItem(<<"ID-R">>, "sitecore", <<"sitecore">>, <<"ID-NULL">>,
                     <<"TPL-BASE">>, "Base", TRUE, <<>>)>>)
    \o When("emptyFolder" \in f,
            <<AnItem(<<"ID-G">>, "bin", ContentPath \o <<"Home", "bin">>, <<"ID-A">>,
                     <<"TPL-FOLDER">>, "Folder", FALSE, <<>>)>>)
    \o When("deep" \in f,
            <<PageItem(<<"ID-H">>, "deep", [i \in 1..10 |-> "x"] \o <<"deep">>, <<>>, <<>>)>>)
    \o When("veryDeep" \in f,
            <<PageItem(<<"ID-I">>, "pit", [i \in 1..15 |-> "x"] \o <<"pit">>, <<>>, <<>>)>>)
    \o When("stale" \in f,
            <<PageItem(<<"ID-J">>, "old", ContentPath \o <<"old">>, <<>>,
                       <<Today - 366>>)>>)
    \o When("veryStale" \in f,
            <<PageItem(<<"ID-K">>, "older", ContentPath \o <<"older">>, <<>>,
                       <<Today - 731>>)>>)

ScanDeepData(f) ==
    <<[id |-> <<"ID-A">>,
       fields |-> <<AField("Title", <<<<"text", "Welcome">>>>, "Single-Line Text"),
                    AField("Settings", <<<<"json", "{}">>>>, ""),
                    AField("Published", <<<<"date", "20240101T000000Z">>>>, "Datetime"),
                    AField("Link", <<<<"url", "/news">>>>, "General Link")>>
                  \o When("brokenLink" \in f,
                          <<AField("Related", <<<<"text", "see ">>, <<"ID-GONE">>>>, "")>>)
                  \o When("badDate" \in f,
                          <<AField("Expires", <<<<"text", "tomorrow">>>>, "Date")>>)
                  \o When("badLink" \in f,
                          <<AField("Target", <<<<"text", "oops">>>>, "Droplink")>>)
                  \o When("badJson" \in f,
                          <<AField("Options", <<<<"braces", "{oops}">>>>, "")>>)
                  \o When("cycle" \in f,
                          <<AField("Next", <<<<"text", "next: ">>, <<"ID-B">>>>, "")>>),
       renderings |-> <<[renderingId |-> <<"RND-1">>, placeholder |-> "main",
                         dataSourceId |-> <<"ID-B">>]>>
                      \o When("brokenSource" \in f,
                              <<[renderingId |-> <<"RND-1">>, placeholder |-> "side",
                                 dataSourceId |-> <<"ID-GONE">>]>>),
       security |-> When("everyoneWrite" \in f, <<"Everyone", ":write">>)
                    \o When("complexSecurity" \in f, <<"ar|", "|pd|">>)]>>
    \o When("cycle" \in f,
            <<[id |-> <<"ID-B">>,
               fields |-> <<AField("Previous", <<<<"text", "back: ">>, <<"id-a">>>>, "")>>,
               renderings |-> <<>>, security |-> <<>>]>>)

ScanMedia(huge, big) ==
    <<[id |-> <<"MEDIA-1">>, size |-> 5 * MB]>>
    \o [i \in 1..huge |-> [id |-> <<"MEDIA-HUGE", Ordinal[i]>>, size |-> 20 * MB + 1]]
    \o [i \in 1..big |-> [id |-> <<"MEDIA-BIG", Ordinal[i]>>,
                            size |-> IF i % 2 = 1 THEN 20 * MB ELSE 5 * MB + 1]]

\* A ScanResult as buildRelationshipMaps leaves it.
AnalyzerScan(its, deep, f, huge, big) ==
    [scanId |-> "scan-1",
     items |-> its,
     templates |-> <<[id |-> <<"TPL-PAGE">>, baseTemplateIds |-> <<<<"TPL-BASE">>>>],
                     [id |-> <<"TPL-BASE">>, baseTemplateIds |-> <<>>]>>
                   \o When("emptyFolder" \in f,
                           <<[id |-> <<"TPL-FOLDER">>, baseTemplateIds |-> <<>>]>>)
                   \o When("unusedTemplate" \in f,
                           <<[id |-> <<"TPL-UNUSED">>, baseTemplateIds |-> <<>>]>>),
     media |-> ScanMedia(huge, big),
     renderings |-> <<[id |-> <<"RND-1">>]>>
                    \o When("unusedRendering" \in f, <<[id |-> <<"RND-2">>]>>),
     deepData |-> deep,
     childrenMap |-> BuildChildrenMap(its, EmptyMap),
     templateUsage |-> BuildTemplateUsage(its, EmptyMap),
     renderingUsage |-> BuildRenderingUsage(deep, EmptyMap),
     progress |-> [phase |-> "complete", itemsScanned |-> Len(its), errors |-> <<>>],
     status |-> "complete"]

\* Scans with no, one or two findings, and scans with a growing number of
\* large media files.
FindingScans ==
    {AnalyzerScan(ScanItems(f), ScanDeepData(f), f, 0, 0) :
        f \in {{}} \cup {{a, b} : a \in FindingNames, b \in FindingNames}}
    \cup {AnalyzerScan(ScanItems(f), ScanDeepData(f), f, huge, big) :
            f \in {{}, {"unusedRendering"}, {"orphan", "unusedRendering"}, FindingNames},
            huge \in 0..MaxHugeMedia, big \in 0..MaxBigMedia}

\* Scans whose three items reference one another through GUIDs in a field.
RefItems ==
    <<PageItem(<<"ID-A">>, "a", ContentPath \o <<"a">>, <<>>, <<>>),
      PageItem(<<"ID-B">>, "b", ContentPath \o <<"b">>, <<>>, <<>>),
      PageItem(<<"ID-C">>, "c", ContentPath \o <<"c">>, <<>>, <<>>)>>

RefDeepData(refsA, refsB, refsC) ==
    <<[id |-> <<"ID-A">>, fields |-> <<AField("Related", refsA, "")>>,
       renderings |-> <<>>, security |-> <<>>],
      [id |-> <<"ID-B">>, fields |-> <<AField("Related", refsB, "")>>,
       renderings |-> <<>>, security |-> <<>>],
      [id |-> <<"ID-C">>, fields |-> <<AField("Related", refsC, "")>>,
       renderings |-> <<>>, security |-> <<>>]>>

RefScans ==
    {AnalyzerScan(RefItems, RefDeepData(refsA, refsB, refsC), {}, 0, 0) :
        refsA \in {<<>>, <<<<"ID-B">>>>, <<<<"ID-C">>>>, <<<<"ID-B">>, <<"ID-C">>>>,
                   <<<<"ID-A">>>>},
        refsB \in {<<>>, <<<<"ID-C">>>>, <<<<"ID-A">>>>, <<<<"id-a">>, <<"ID-A">>>>,
                   <<<<"ID-A">>, <<"ID-C">>>>},
        refsC \in {<<>>, <<<<"ID-A">>>>, <<<<"ID-B">>>>, <<<<"ID-A">>, <<"ID-B">>>>}}

AnalyzerScans == FindingScans \cup RefScans

InitAnalyzer ==
    /\ ScanIdle
    /\ GraphIdle
    /\ ServerIdle
    /\ aScan \in AnalyzerScans
    /\ aNow = Today
    /\ aResult = "none"
    /\ aPc = "ready"
    /\ aReport = <<>>

\* analyzeXRayScan(scan), lines 659-662.
Analyze ==
    /\ aPc = "ready"
    /\ aResult' = analyze(aScan, aNow)
    /\ aPc' = "analyzed"
    /\ UNCHANGED <<aScan, aNow, aReport, scanVars, graphVars, serverVars>>

\* generateReport(analysis, instanceUrl, scanDuration) on the analysis returned.
GenerateReport ==
    /\ aPc = "analyzed"
    /\ aReport = <<>>
    /\ \E scanDuration \in {0, 1000} :
          aReport' = <<generateReport(aResult, "https://site.com", scanDuration, aNow)>>
    /\ UNCHANGED <<aScan, aNow, aResult, aPc, scanVars, graphVars, serverVars>>

\* buildKnowledgeGraph(scan, options) with the maxNodes slice applied to
\* scan.items as well.
BuildKnowledgeGraph_Truncates ==
    /\ aPc # "idle"
    /\ gPc = "idle"
    /\ \E maxNodes \in {2, DefaultMaxNodes} :
          /\ gGraph' = build(aScan, [nodeTypes |-> {"item", "template", "media",
                                                    "rendering", "placeholder"},
                                     maxNodes |-> maxNodes, centerOn |-> <<>>,
                                     includeEdges |-> TRUE])
          /\ aScan' = [aScan EXCEPT
                         !.items = IF Len(@) > maxNodes THEN SubSeq(@, 1, maxNodes) ELSE @]
    /\ gPc' = "returned"
    /\ UNCHANGED <<gScan, gOptions, aNow, aResult, aPc, aReport, scanVars, serverVars>>

\* buildKnowledgeGraph(scan, options), graph.ts lines 401-407, on the scan the
\* analyzer reads, before or after the analysis.
BuildKnowledgeGraph ==
    /\ aPc # "idle"
    /\ gPc = "idle"
    /\ \E maxNodes \in {2, DefaultMaxNodes} :
          gGraph' = build(aScan, [nodeTypes |-> {"item", "template", "media",
                                                 "rendering", "placeholder"},
                                  maxNodes |-> maxNodes, centerOn |-> <<>>,
                                  includeEdges |-> TRUE])
    /\ gPc' = "returned"
    /\ UNCHANGED <<gScan, gOptions, analyzerVars, scanVars, serverVars>>

NextAnalyzer == Analyze \/ GenerateReport \/ BuildKnowledgeGraph

AnalyzerSpec == InitAnalyzer /\ [][NextAnalyzer]_vars

\* ------------------------------------------------------------------------
\* Properties of the analyzer
\* ------------------------------------------------------------------------
Severities(result, severity) ==
    Cardinality({i \in 1..Len(result.issues) : result.issues[i].severity = severity})

NoneOf(result, category) ==
    \A i \in 1..Len(result.issues) : result.issues[i].category # category

\* Twice the value of the stated formula, before clamping.
StatedScoreHalves(result) ==
    200 - 2 * Min(5 * Severities(result, "critical"), 40)
        - 2 * Min(2 * Severities(result, "warning"), 30)
        - Min(Severities(result, "info"), 20)
        + 10 * Cardinality({c \in {"orphan", "broken-link", "unused-template", "security"} :
                              NoneOf(result, c)})

\* C7 as stated: healthScore equals 100 - min(5*critical, 40)
\* - min(2*warning, 30) - min(0.5*info, 10), plus 5 for each of the orphan,
\* broken-link, unused-template and security categories without issues,
\* clamped to [0, 100].
C7_HealthScoreFormula ==
    aPc = "analyzed" =>
        2 * aResult.healthScore = Max(0, Min(200, StatedScoreHalves(aResult)))

\* C8: healthGrade is A iff healthScore >= 90, B iff 80 <= score < 90, C iff
\* 70 <= score < 80, D iff 60 <= score < 70 and F iff score < 60, for the
\* grade of every analysis and for getHealthGrade on every score of 0..100.
GradeMatches(score, grade) ==
    /\ grade = "A" <=> score >= 90
    /\ grade = "B" <=> (80 <= score /\ score < 90)
    /\ grade = "C" <=> (70 <= score /\ score < 80)
    /\ grade = "D" <=> (60 <= score /\ score < 70)
    /\ grade = "F" <=> score < 60

C8_GradeBoundaries ==
    /\ aPc = "analyzed" => GradeMatches(aResult.healthScore, aResult.healthGrade)
    /\ \A score \in 0..100 : GradeMatches(score, getHealthGrade(score))

\* An analysis whose score sits on a grade boundary.
C8_Witness ==
    /\ aPc = "analyzed"
    /\ aResult.healthScore = 90
    /\ aResult.healthGrade = "A"

\* The reference graph the detector works on, as a set of edges, and its
\* distinct cycles, each identified by the set of its edges.
RefEdges(scan) ==
    {<<e.id, e.refs[i]>> : <<e, i>> \in {<<e, i>> \in Range(refGraphOf(scan)) \X (1..4) :
                                           i <= Len(e.refs)}}

CycleEdges(cycle) ==
    {<<cycle[i], cycle[(i % Len(cycle)) + 1]>> : i \in 1..Len(cycle)}

RefCycles(scan) ==
    LET V == {e[1] : e \in RefEdges(scan)}
    IN {CycleEdges(c) :
          c \in {c \in UNION {[1..n -> V] : n \in 1..Cardinality(V)} :
                   /\ \A i, j \in 1..Len(c) : i # j => c[i] # c[j]
                   /\ CycleEdges(c) \subseteq RefEdges(scan)}}

CircularIssues(result) ==
    SelectSeq(result.issues, LAMBDA issue : issue.category = "circular-reference")

\* C10 as stated: the analysis holds exactly one circular-reference warning
\* per distinct cycle of the reference graph, listing that cycle's members,
\* and no other circular-reference issue.
C10_OneIssuePerCycle ==
    aPc = "analyzed" =>
        LET found == CircularIssues(aResult)
        IN /\ \A i \in 1..Len(found) :
                 /\ found[i].severity = "warning"
                 /\ CycleEdges(found[i].metadata) \in RefCycles(aScan)
           /\ \A cycle \in RefCycles(aScan) :
                 Cardinality({i \in 1..Len(found) :
                                CycleEdges(found[i].metadata) = cycle}) = 1

DuplicateIssues(analysis) ==
    SelectSeq(analysis.issues, LAMBDA issue : issue.category = "duplicate")

\* The ids of the items that share a template and a lower-cased name with `item`.
DuplicateGroup(scan, item) ==
    {other.id : other \in {o \in Range(scan.items) :
                              /\ o.templateId = item.templateId
                              /\ toLowerCase(o.name) = toLowerCase(item.name)}}

DuplicateGroups(scan) ==
    {g \in {DuplicateGroup(scan, item) : item \in Range(scan.items)} : Cardinality(g) > 1}

\* C11: items are grouped by (templateId, lower-cased name); every group of
\* more than one item yields exactly one duplicate info issue whose metadata
\* lists the ids and the paths of the members of that group and of no other
\* item, and a group of one item yields no duplicate issue.
C11_DuplicateGroups ==
    aPc = "analyzed" =>
        LET found == DuplicateIssues(aResult)
        IN /\ \A i \in 1..Len(found) :
                 LET ids == found[i].metadata.itemIds
                     paths == found[i].metadata.paths
                 IN /\ found[i].severity = "info"
                    /\ Range(ids) \in DuplicateGroups(aScan)
                    /\ Len(ids) = Cardinality(Range(ids))
                    /\ Len(paths) = Len(ids)
                    /\ \A k \in 1..Len(ids) : paths[k] = MapGet(aScan.items, ids[k]).path
           /\ \A g \in DuplicateGroups(aScan) :
                 Cardinality({i \in 1..Len(found) : Range(found[i].metadata.itemIds) = g}) = 1

\* A scan with a group of three and a group of two that share a lower-cased
\* name and differ in the template: two issues, one per group.
C11_Witness ==
    /\ aPc = "analyzed"
    /\ Cardinality(DuplicateGroups(aScan)) = 2
    /\ Len(DuplicateIssues(aResult)) = 2
    /\ \E i \in 1..2 : Len(DuplicateIssues(aResult)[i].metadata.itemIds) = 3
    /\ \E item \in Range(aScan.items) : Cardinality(DuplicateGroup(aScan, item)) = 1

LargeMediaIssues(analysis, id) ==
    SelectSeq(analysis.issues,
              LAMBDA issue : issue.category = "large-media" /\ issue.itemId = id)

\* C12: each media item yields at most one large-media issue, with exclusive
\* thresholds: size > 20MB gives one critical issue, 5MB < size <= 20MB gives
\* one warning, and size <= 5MB (exactly 5MB included) gives none.
C12_LargeMediaThresholds ==
    aPc = "analyzed" =>
        /\ \A i \in 1..Len(aScan.media) :
              LET med == aScan.media[i]
                  found == LargeMediaIssues(aResult, med.id)
              IN IF med.size > 20 * 1024 * 1024
                 THEN Len(found) = 1 /\ found[1].severity = "critical"
                 ELSE IF med.size > 5 * 1024 * 1024
                      THEN Len(found) = 1 /\ found[1].severity = "warning"
                      ELSE found = <<>>
        /\ \A i \in 1..Len(aResult.issues) :
              aResult.issues[i].category = "large-media" =>
                  aResult.issues[i].itemId \in {aScan.media[k].id : k \in 1..Len(aScan.media)}

\* An analysed scan holding files of exactly 5MB, 5MB + 1, exactly 20MB and
\* 20MB + 1 bytes.
C12_Witness ==
    /\ aPc = "analyzed"
    /\ {5 * 1024 * 1024, 5 * 1024 * 1024 + 1, 20 * 1024 * 1024, 20 * 1024 * 1024 + 1}
           \subseteq {aScan.media[k].size : k \in 1..Len(aScan.media)}
    /\ \E i \in 1..Len(aResult.issues) :
          aResult.issues[i].category = "large-media" /\ aResult.issues[i].severity = "warning"
    /\ \E i \in 1..Len(aResult.issues) :
          aResult.issues[i].category = "large-media" /\ aResult.issues[i].severity = "critical"

\* ------------------------------------------------------------------------
\* ConduitServer: the X-Ray tools (src/src/server.ts, handleTool)
\* ------------------------------------------------------------------------
MaxReports == 2        \* xray_report replies kept for a complete scan
MaxTicks == 1          \* days the clock advances during a run

\* DEFAULT_SCAN_CONFIG.maxItems
DefaultMaxItems == 50000

\* The content tree the server's scans run on: two items below rootPath, the
\* others in a chain below the second.
ServerTrees == {[n \in Nodes |-> IF n <= 2 THEN 0 ELSE n - 1]}

\* The arguments xray_scan builds its config from (tier, include flags).
ServerScanArgs ==
    {[tier |-> 1, templates |-> TRUE, media |-> TRUE, renderings |-> TRUE],
     [tier |-> 2, templates |-> FALSE, media |-> FALSE, renderings |-> FALSE]}

\* The category and severity arguments of xray_report ("" when absent).
ReportFilters == {<<"", "">>, <<"stale-content", "info">>}

\* item.updatedAt in the content source: the first item was last updated
\* 365 days before the first day of the run, the others carry no date.
UpdatedOfNode(n) == IF n = 1 THEN <<Today - 365>> ELSE <<>>

\* stored.result, the scanner's own result object (getResult(), server.ts
\* line 586), with the record fields the analyzer and the graph builder read:
\* updated (scanner.ts:186), baseTemplateIds (234), size (270),
\* dataSourceId (396) and security (411) as the content source has them.
StoredResult ==
    [scanId |-> "scan-1",
     items |-> [i \in 1..Len(items) |->
                  [id |-> items[i].id, name |-> items[i].name, path |-> items[i].path,
                   templateId |-> items[i].templateId,
                   templateName |-> items[i].templateName,
                   parentId |-> items[i].parentId,
                   hasChildren |-> items[i].hasChildren,
                   updated |-> UpdatedOfNode(NodeOfId(items[i].id))]],
     templates |-> [i \in 1..Len(templates) |->
                      [id |-> templates[i], baseTemplateIds |-> <<>>]],
     media |-> [i \in 1..Len(media) |-> [id |-> media[i], size |-> 5 * MB]],
     renderings |-> [i \in 1..Len(renderings) |-> [id |-> renderings[i]]],
     deepData |-> [i \in 1..Len(deepData) |->
                     [id |-> deepData[i].id,
                      fields |-> deepData[i].fields,
                      renderings |-> [j \in 1..Len(deepData[i].renderings) |->
                                        [renderingId |-> deepData[i].renderings[j].renderingId,
                                         placeholder |-> deepData[i].renderings[j].placeholder,
                                         dataSourceId |-> <<>>]],
                      security |-> <<>>]],
     childrenMap |-> childrenMap,
     templateUsage |-> templateUsage,
     renderingUsage |-> renderingUsage]

\* filterIssues(issues, category, severity): the issues of the given category
\* and of the given severity, each test skipped when its argument is absent.
filterIssues(issues, category, severity) ==
    SelectSeq(issues, LAMBDA issue :
                          /\ category = "" \/ issue.category = category
                          /\ severity = "" \/ issue.severity = severity)

\* The server after construction, with the content source and the arguments
\* of the xray_scan call to come.
InitServer ==
    /\ GraphIdle
    /\ AnalyzerIdle
    /\ RegistryIdle
    /\ RateIdle
    /\ par \in ServerTrees
    /\ scoped = TRUE
    /\ untyped = {}
    /\ maxItems = DefaultMaxItems
    /\ maxDepth = -1
    /\ \E a \in ServerScanArgs :
          /\ tier = a.tier
          /\ includeTemplates = a.templates
          /\ includeMedia = a.media
          /\ includeRenderings = a.renderings
    /\ hasProgress = FALSE
    /\ initializeResult
    /\ xStored = FALSE
    /\ xAnalysis = <<>>
    /\ xThenRan = FALSE
    /\ lastXrayHealth = <<>>
    /\ clock = Today
    /\ xReports = <<>>
    /\ xReply = <<>>

\* The tool handler with a catch block that throws the error again.
errorResponse_Rethrows(tool, message) == [tool |-> tool, thrown |-> message]

\* The catch block of the CallToolRequestSchema handler, lines 408-419: an
\* error thrown by handleTool becomes the response {error: message} with
\* isError: true.
errorResponse(tool, message) == [tool |-> tool, error |-> message, isError |-> TRUE]

\* A variant of xray_scan that stores the scanner and leaves the call of
\* scanner.scan() to a later turn of the event loop.
xray_scan_Deferred ==
    /\ ~xStored
    /\ pc = "pending"
    /\ xStored' = TRUE
    /\ xReply' = <<[tool |-> "xray_scan", status |-> "scanning"]>>
    /\ UNCHANGED <<scanVars, graphVars, analyzerVars, registryVars, rateVars, xAnalysis,
                   xThenRan, lastXrayHealth,
                   clock, xReports>>

\* case 'xray_scan', lines 567-608: the scanner is constructed and stored, and
\* scanner.scan() runs up to its first await (scanner.ts lines 103-108).
xray_scan ==
    /\ ~xStored
    /\ pc = "pending"
    /\ xStored' = TRUE
    /\ status' = "scanning"
    /\ phase' = "items"
    /\ queue' = <<RootPath>>
    /\ depth' = 0
    /\ pc' = "whileTest"
    /\ xReply' = <<[tool |-> "xray_scan", status |-> "scanning"]>>
    /\ UNCHANGED <<par, scoped, untyped, maxItems, maxDepth, tier, includeTemplates, includeMedia,
                   includeRenderings, hasProgress, currentPath, itemsScanned, errors,
                   items, templates, media, renderings, deepData, childrenMap,
                   templateUsage, renderingUsage, aborted, children, candidates,
                   fetched, escaped, itemsAtAbort, queuedAtFailure, sinceSleep, deepLog>>
    /\ UNCHANGED <<graphVars, analyzerVars, registryVars, rateVars, xAnalysis, xThenRan,
                   lastXrayHealth, clock,
                   xReports>>

\* The scan started by xray_scan goes on in the background.
ScanRuns ==
    /\ xStored
    /\ ScannerStep

\* A variant of the callback whose analysis passes over an item without a
\* templateName instead of throwing.
ScanThen_NoThrow ==
    /\ xStored
    /\ pc = "done"
    /\ ~xThenRan
    /\ xThenRan' = TRUE
    /\ LET analysis == analyze(StoredResult, clock)
       IN /\ xAnalysis' = <<analysis>>
          /\ lastXrayHealth' =
                <<[score |-> analysis.healthScore,
                   scanId |-> analysis.scanId,
                   scannedAt |-> clock,
                   criticalIssues |-> Len(filterIssues(analysis.issues, "", "critical")),
                   topIssue |-> IF analysis.issues = <<>> THEN <<>>
                                ELSE <<analysis.issues[1]>>]>>
    /\ UNCHANGED <<scanVars, graphVars, analyzerVars, registryVars, rateVars, xStored,
                   clock, xReports, xReply>>

\* The callback of scanner.scan().then(...), lines 589-605, once scan() has
\* returned.
ScanThen ==
    /\ xStored
    /\ pc = "done"
    /\ ~xThenRan
    /\ xThenRan' = TRUE
    /\ IF toLowerCaseThrows(items)
       THEN \* analyzeXRayScan(result) throws in detectEmptyContainers: the
            \* callback ends there, and nothing handles the rejection.
            UNCHANGED <<xAnalysis, lastXrayHealth>>
       ELSE LET analysis == analyze(StoredResult, clock)
            IN /\ xAnalysis' = <<analysis>>
               /\ lastXrayHealth' =
                     <<[score |-> analysis.healthScore,
                        scanId |-> analysis.scanId,
                        scannedAt |-> clock,
                        criticalIssues |->
                            Len(filterIssues(analysis.issues, "", "critical")),
                        topIssue |-> IF analysis.issues = <<>> THEN <<>>
                                     ELSE <<analysis.issues[1]>>]>>
    /\ UNCHANGED <<scanVars, graphVars, analyzerVars, registryVars, rateVars, xStored,
                   clock, xReports, xReply>>

\* A variant of xray_report that analyses the scan anew on every call.
xray_report_Recomputes ==
    \E filter \in ReportFilters :
        IF ~xStored
        THEN /\ xReply' = <<errorResponse("xray_report", "Scan not found")>>
             /\ UNCHANGED <<scanVars, graphVars, analyzerVars, registryVars, rateVars,
                            xStored, xAnalysis,
                            xThenRan, lastXrayHealth, clock, xReports>>
        ELSE IF status # "complete"
        THEN /\ xReply' = <<[tool |-> "xray_report", status |-> status,
                             message |-> "Scan not complete"]>>
             /\ UNCHANGED <<scanVars, graphVars, analyzerVars, registryVars, rateVars,
                            xStored, xAnalysis,
                            xThenRan, lastXrayHealth, clock, xReports>>
        ELSE /\ Len(xReports) < MaxReports
             /\ LET analysis == analyze(StoredResult, clock)
                IN /\ xAnalysis' = <<analysis>>
                   /\ xReports' = Append(xReports,
                         [category |-> filter[1], severity |-> filter[2],
                          healthScore |-> analysis.healthScore,
                          healthGrade |-> analysis.healthGrade,
                          issues |-> filterIssues(analysis.issues, filter[1], filter[2]),
                          lazy |-> (xAnalysis = <<>>),
                          thenRan |-> xThenRan])
             /\ UNCHANGED <<scanVars, graphVars, analyzerVars, registryVars, rateVars,
                            xStored, xThenRan,
                            lastXrayHealth, clock, xReply>>

\* case 'xray_report', lines 625-652.  The replies given for the complete
\* scan are kept in xReports, with two history marks: whether this call
\* computed the analysis and whether the scan's callback had run.
xray_report ==
    \E filter \in ReportFilters :
        IF ~xStored
        THEN /\ xReply' = <<errorResponse("xray_report", "Scan not found")>>
             /\ UNCHANGED <<scanVars, graphVars, analyzerVars, registryVars, rateVars,
                            xStored, xAnalysis,
                            xThenRan, lastXrayHealth, clock, xReports>>
        ELSE IF status # "complete"
        THEN /\ xReply' = <<[tool |-> "xray_report", status |-> status,
                             message |-> "Scan not complete"]>>
             /\ UNCHANGED <<scanVars, graphVars, analyzerVars, registryVars, rateVars,
                            xStored, xAnalysis,
                            xThenRan, lastXrayHealth, clock, xReports>>
        ELSE /\ Len(xReports) < MaxReports
             /\ LET analysis == IF xAnalysis = <<>> THEN analyze(StoredResult, clock)
                                ELSE xAnalysis[1]
                IN /\ xAnalysis' = <<analysis>>
                   /\ xReports' = Append(xReports,
                         [category |-> filter[1], severity |-> filter[2],
                          healthScore |-> analysis.healthScore,
                          healthGrade |-> analysis.healthGrade,
                          issues |-> filterIssues(analysis.issues, filter[1], filter[2]),
                          lazy |-> (xAnalysis = <<>>),
                          thenRan |-> xThenRan])
             /\ UNCHANGED <<scanVars, graphVars, analyzerVars, registryVars, rateVars,
                            xStored, xThenRan,
                            lastXrayHealth, clock, xReply>>

\* case 'xray_status', lines 610-623.
xray_status ==
    /\ xReply' = IF ~xStored
                 THEN <<errorResponse("xray_status", "Scan not found")>>
                 ELSE <<[tool |-> "xray_status", status |-> status, phase |-> phase,
                         itemsScanned |-> itemsScanned]>>
    /\ UNCHANGED <<scanVars, graphVars, analyzerVars, registryVars, rateVars, xStored,
                   xAnalysis, xThenRan,
                   lastXrayHealth, clock, xReports>>

\* case 'xray_graph', lines 654-671: maxNodes is args.maxNodes || 1000.
xray_graph ==
    /\ \E maxNodes \in {0, 2} :
          xReply' = IF ~xStored
                    THEN <<errorResponse("xray_graph", "Scan not found")>>
                    ELSE IF status # "complete"
                    THEN <<[tool |-> "xray_graph", status |-> status,
                            message |-> "Scan not complete"]>>
                    ELSE <<[tool |-> "xray_graph",
                            nodeCount |->
                               Len(build(StoredResult,
                                         [nodeTypes |-> {"item", "template", "media",
                                                         "rendering", "placeholder"},
                                          maxNodes |-> IF maxNodes = 0 THEN DefaultMaxNodes
                                                       ELSE maxNodes,
                                          centerOn |-> <<>>,
                                          includeEdges |-> TRUE]).nodes)]>>
    /\ UNCHANGED <<scanVars, graphVars, analyzerVars, registryVars, rateVars, xStored,
                   xAnalysis, xThenRan,
                   lastXrayHealth, clock, xReports>>

\* case 'xray_health', lines 673-690.
xray_health ==
    /\ xReply' = IF lastXrayHealth = <<>>
                 THEN <<[tool |-> "xray_health", healthScore |-> <<>>]>>
                 ELSE <<[tool |-> "xray_health",
                         healthScore |-> <<lastXrayHealth[1].score>>,
                         lastScanAt |-> lastXrayHealth[1].scannedAt,
                         criticalIssues |-> lastXrayHealth[1].criticalIssues]>>
    /\ UNCHANGED <<scanVars, graphVars, analyzerVars, registryVars, rateVars, xStored,
                   xAnalysis, xThenRan,
                   lastXrayHealth, clock, xReports>>

\* A day passes between two turns of the event loop.  The callback of
\* scan().then(...) is queued in the turn in which scan() returns, so no day
\* passes while it is pending.
Tick ==
    /\ clock < Today + MaxTicks
    /\ ~(xStored /\ pc = "done" /\ ~xThenRan)
    /\ clock' = clock + 1
    /\ UNCHANGED <<scanVars, graphVars, analyzerVars, registryVars, rateVars, xStored,
                   xAnalysis, xThenRan,
                   lastXrayHealth, xReports, xReply>>

NextServer ==
    \/ xray_scan \/ ScanRuns \/ ScanThen
    \/ xray_report \/ xray_status \/ xray_graph \/ xray_health
    \/ Tick

ServerSpec == InitServer /\ [][NextServer]_vars

\* ------------------------------------------------------------------------
\* Properties of the X-Ray tools
\* ------------------------------------------------------------------------
\* C9: any two xray_report replies for the complete scan that were asked with
\* the same filters hold the same issues and the same healthScore, whatever
\* ran between them; every reply is the filtered content of the analysis
\* cached for the scan.
C9_ReportIdempotent ==
    /\ \A i, j \in 1..Len(xReports) :
          (xReports[i].category = xReports[j].category
           /\ xReports[i].severity = xReports[j].severity)
          => /\ xReports[i].issues = xReports[j].issues
             /\ xReports[i].healthScore = xReports[j].healthScore
    /\ xReports # <<>> =>
          /\ xAnalysis # <<>>
          /\ \A i \in 1..Len(xReports) :
                /\ xReports[i].healthScore = xAnalysis[1].healthScore
                /\ xReports[i].issues = filterIssues(xAnalysis[1].issues,
                                                     xReports[i].category,
                                                     xReports[i].severity)

\* Two replies with the same filters: the first computed the analysis before
\* the scan's callback ran, the second came after the callback, a day later.
C9_Witness ==
    /\ Len(xReports) >= 2
    /\ xReports[1].lazy
    /\ ~xReports[1].thenRan
    /\ xReports[2].thenRan
    /\ xReports[1].category = xReports[2].category
    /\ xReports[1].severity = xReports[2].severity
    /\ xReports[1].issues # <<>>
    /\ clock > Today

\* The ids held by the value lists of a childrenMap.
ChildIds(map) == UNION {Range(map[k]) : k \in DOMAIN map}

OrphanSubjects(analysis) ==
    {analysis.issues[i].itemId :
        i \in {j \in 1..Len(analysis.issues) : analysis.issues[j].category = "orphan"}}

\* C13: for every completed scan, the analysis has stats.totalItems equal to
\* items.size, and every id that appears in a childrenMap value list is
\* either a key of items or the subject of an orphan issue.
C13_StatsMatchScan ==
    (xStored /\ status = "complete" /\ xAnalysis # <<>>) =>
        /\ xAnalysis[1].stats.totalItems = Cardinality(Keys(items))
        /\ \A id \in ChildIds(childrenMap) :
              id \in Keys(items) \/ id \in OrphanSubjects(xAnalysis[1])

\* A completed and analysed scan whose childrenMap holds a list of two ids.
C13_Witness ==
    /\ xStored /\ status = "complete" /\ xAnalysis # <<>>
    /\ xAnalysis[1].stats.totalItems >= 3
    /\ \E k \in DOMAIN childrenMap : Len(childrenMap[k]) >= 2

\* The place of a recommendation's rule in the rule table.
RuleIndex(rec) ==
    CHOOSE k \in 1..Len(RecommendationRules) : RecommendationRules[k][3] = rec.title

\* C14: in the recommendations of generateReport every 'high' entry precedes
\* every 'medium' entry, which precedes every 'low' entry, and entries of the
\* same priority keep the order of the rule table.
C14_RecommendationOrder ==
    aReport # <<>> =>
        LET recs == aReport[1].recommendations
        IN \A i, j \in 1..Len(recs) :
              i < j =>
                  /\ priorityOrder(recs[i].priority) <= priorityOrder(recs[j].priority)
                  /\ recs[i].priority = recs[j].priority => RuleIndex(recs[i]) < RuleIndex(recs[j])

\* A report with entries of all three priorities, two of them 'high' and
\* two of them 'low'.
C14_Witness ==
    /\ aReport # <<>>
    /\ LET recs == aReport[1].recommendations
       IN /\ {recs[i].priority : i \in 1..Len(recs)} = {"high", "medium", "low"}
          /\ Cardinality({i \in 1..Len(recs) : recs[i].priority = "high"}) >= 2
          /\ Cardinality({i \in 1..Len(recs) : recs[i].priority = "low"}) >= 2

MaxScans == 3          \* xray_scan calls that start a scan

\* The adapters configured, by name, and adapter.name of each.
AdapterNames == {"default", "staging", "blog"}

AdapterKind(adapterName) == IF adapterName = "blog" THEN "wordpress" ELSE "sitecore-xp"

InitRegistry ==
    /\ ScanIdle
    /\ GraphIdle
    /\ AnalyzerIdle
    /\ ServerIdle

\* case 'xray_scan', lines 567-608, for the adapter named in args.adapter:
\* a new scanner is constructed and stored under its own scanId, and
\* scanner.scan() is called at once, which sets the status to 'scanning'.
xray_scan_For(adapterName) ==
    /\ Len(xScans) < MaxScans
    /\ IF AdapterKind(adapterName) # "sitecore-xp"
       THEN /\ xReply' = <<errorResponse("xray_scan", "X-Ray scan requires sitecore-xp adapter")>>
            /\ UNCHANGED xScans
       ELSE /\ xScans' = Append(xScans, [adapter |-> adapterName, status |-> "scanning"])
            /\ xReply' = <<[tool |-> "xray_scan", scanId |-> Len(xScans) + 1,
                            status |-> "scanning"]>>
    /\ UNCHANGED <<scanVars, graphVars, analyzerVars, rateVars, xStored, xAnalysis,
                   xThenRan, lastXrayHealth, clock, xReports>>

\* scanner.scan() of the i-th scan comes to its end, scanner.ts lines 130
\* and 135.
ScanEnds(i) ==
    /\ xScans[i].status = "scanning"
    /\ \E outcome \in {"complete", "failed"} :
          xScans' = [xScans EXCEPT ![i].status = outcome]
    /\ UNCHANGED <<scanVars, graphVars, analyzerVars, rateVars, xStored, xAnalysis,
                   xThenRan, lastXrayHealth, clock, xReports, xReply>>

NextRegistry ==
    \/ \E adapterName \in AdapterNames : xray_scan_For(adapterName)
    \/ \E i \in 1..Len(xScans) : ScanEnds(i)

RegistrySpec == InitRegistry /\ [][NextRegistry]_vars

\* C16 as stated: at most one X-Ray scan per adapter is in status scanning
\* at any time.
C16_OneScanPerAdapter ==
    \A adapterName \in AdapterNames :
        Cardinality({i \in 1..Len(xScans) :
                       /\ xScans[i].adapter = adapterName
                       /\ xScans[i].status = "scanning"}) <= 1

\* ------------------------------------------------------------------------
\* RateLimitMiddleware (src/middleware/rate-limit.ts)
\* ------------------------------------------------------------------------
MaxNow == 4            \* Date.now() runs from 0 to MaxNow
MaxCalls == 4          \* checkLimit calls made

RateKeys == {"client1", "client2"}

\* new RateLimitMiddleware({windowMs, maxRequests}), lines 20-23, with an
\* empty windows Map.
InitRate ==
    /\ ScanIdle
    /\ GraphIdle
    /\ AnalyzerIdle
    /\ RegistryIdle
    /\ xStored = FALSE
    /\ xAnalysis = <<>>
    /\ xThenRan = FALSE
    /\ lastXrayHealth = <<>>
    /\ clock = 0
    /\ xReports = <<>>
    /\ xReply = <<>>
    /\ rlWindowMs \in {2, 3}
    /\ rlLimit \in {1, 2}
    /\ rlWindows = <<>>
    /\ rlNow = 0
    /\ rlCalls = <<>>

\* entry.timestamps.filter(t => t > windowStart)
timestampsAfter(timestamps, windowStart) ==
    SelectSeq(timestamps, LAMBDA t : t > windowStart)

\* checkLimit(key) with the time of a rejected call recorded as well.
checkLimit_RecordsRejected(key) ==
    /\ Len(rlCalls) < MaxCalls
    /\ LET windowStart == rlNow - rlWindowMs
           entry == IF key \in Keys(rlWindows) THEN MapGet(rlWindows, key)
                    ELSE [id |-> key, timestamps |-> <<>>]
           kept == timestampsAfter(entry.timestamps, windowStart)
       IN /\ rlWindows' = MapSet(rlWindows, [id |-> key, timestamps |-> Append(kept, rlNow)])
          /\ rlCalls' = Append(rlCalls, [key |-> key, at |-> rlNow,
                                          allowed |-> ~(Len(kept) >= rlLimit)])
    /\ UNCHANGED <<scanVars, graphVars, analyzerVars, registryVars, rlWindowMs, rlLimit,
                   rlNow, xStored, xAnalysis, xThenRan, lastXrayHealth, clock, xReports,
                   xReply>>

\* checkLimit(key), lines 29-48: the entry of the key is created if absent,
\* its timestamps outside the window are dropped, and the call is recorded
\* and allowed unless the limit is reached.
checkLimit(key) ==
    /\ Len(rlCalls) < MaxCalls
    /\ LET windowStart == rlNow - rlWindowMs
           entry == IF key \in Keys(rlWindows) THEN MapGet(rlWindows, key)
                    ELSE [id |-> key, timestamps |-> <<>>]
           kept == timestampsAfter(entry.timestamps, windowStart)
       IN IF Len(kept) >= rlLimit
          THEN /\ rlWindows' = MapSet(rlWindows, [id |-> key, timestamps |-> kept])
               /\ rlCalls' = Append(rlCalls, [key |-> key, at |-> rlNow, allowed |-> FALSE])
          ELSE /\ rlWindows' = MapSet(rlWindows,
                                      [id |-> key, timestamps |-> Append(kept, rlNow)])
               /\ rlCalls' = Append(rlCalls, [key |-> key, at |-> rlNow, allowed |-> TRUE])
    /\ UNCHANGED <<scanVars, graphVars, analyzerVars, registryVars, rlWindowMs, rlLimit,
                   rlNow, xStored, xAnalysis, xThenRan, lastXrayHealth, clock, xReports,
                   xReply>>

\* A millisecond passes between two calls.
TimePasses ==
    /\ rlNow < MaxNow
    /\ rlNow' = rlNow + 1
    /\ UNCHANGED <<scanVars, graphVars, analyzerVars, registryVars, rlWindowMs, rlLimit,
                   rlWindows, rlCalls, xStored, xAnalysis, xThenRan, lastXrayHealth, clock,
                   xReports, xReply>>

NextRate ==
    \/ \E key \in RateKeys : checkLimit(key)
    \/ TimePasses

RateSpec == InitRate /\ [][NextRate]_vars

\* The times of the admitted calls of a key, in the order of the calls.
AdmittedAt(key) ==
    LET admitted == SelectSeq(rlCalls, LAMBDA c : c.key = key /\ c.allowed)
    IN [i \in 1..Len(admitted) |-> admitted[i].at]

\* The admitted calls of the key of call j that precede it and lie inside the
\* window (at - windowMs, at] of call j.
AdmittedInWindow(j) ==
    {i \in 1..(j - 1) : /\ rlCalls[i].key = rlCalls[j].key
                        /\ rlCalls[i].allowed
                        /\ rlCalls[i].at > rlCalls[j].at - rlWindowMs}

\* C19: for each key checkLimit admits at most maxRequests calls within any
\* window of windowMs (maxRequests + 1 admitted calls of a key never lie less
\* than windowMs apart); a call is admitted exactly when fewer than
\* maxRequests admitted calls of its own key lie inside its window, so that
\* rejected calls and the calls of other keys count for nothing.
C19_SlidingWindow ==
    /\ \A key \in RateKeys :
          LET admitted == AdmittedAt(key)
          IN \A i \in 1..Len(admitted) :
                i + rlLimit <= Len(admitted) =>
                    admitted[i + rlLimit] - admitted[i] >= rlWindowMs
    /\ \A j \in 1..Len(rlCalls) :
          rlCalls[j].allowed <=> Cardinality(AdmittedInWindow(j)) < rlLimit

\* A key is rejected, the other key is admitted at the same moment, and the
\* rejected key is admitted again once the window has moved on, although it
\* was rejected inside that window.
C19_Witness ==
    \E i, j, k \in 1..Len(rlCalls) :
        /\ i < j /\ j < k
        /\ rlCalls[i].key = "client1" /\ ~rlCalls[i].allowed
        /\ rlCalls[j].key = "client2" /\ rlCalls[j].allowed /\ rlCalls[j].at = rlCalls[i].at
        /\ rlCalls[k].key = "client1" /\ rlCalls[k].allowed
        /\ rlCalls[k].at - rlCalls[i].at < rlWindowMs

\* ------------------------------------------------------------------------
\* XRayScanner on trees with two branches of different depth
\* ------------------------------------------------------------------------
\* Content trees of five items, given by the parent of each item (0 is
\* rootPath): two branches below rootPath, the second one deeper; a chain;
\* two branches that both go on.
DepthTrees == {<<0, 1, 0, 3, 4>>, <<0, 1, 2, 3, 4>>, <<0, 0, 1, 2, 4>>}

InitDepthScan ==
    /\ GraphIdle
    /\ AnalyzerIdle
    /\ ServerIdle
    /\ par \in DepthTrees
    /\ scoped = TRUE
    /\ untyped = {}
    /\ maxItems \in {2, DefaultMaxItems}
    /\ maxDepth \in {-1, 1, 2}
    /\ \E c \in ScanConfigs :
          /\ tier = c.tier
          /\ includeTemplates = c.templates
          /\ includeMedia = c.media
          /\ includeRenderings = c.renderings
          /\ hasProgress = c.progress
    /\ initializeResult

DepthSpec == InitDepthScan /\ [][NextScan]_vars

\* The number of tree levels between rootPath and a path below it.
TreeDistance(path) == Len(path) - Len(RootPath)

\* C20 as stated: with maxDepth = d >= 0 the children of an expanded path at
\* tree distance k from rootPath are enqueued iff they report children and
\* k < d, and with maxDepth = -1 every child that reports children is
\* enqueued.  Stated of a scan that ran to its end undisturbed, where the
\* paths enqueued are the paths fetched.
C20_DepthBoundsTreeLevels ==
    (pc = "done" /\ status = "complete" /\ ~aborted /\ errors = <<>>) =>
        \A i \in 1..Len(items) :
            (items[i].path \in fetched) <=>
                /\ items[i].hasChildren
                /\ \/ maxDepth = -1
                   \/ TreeDistance(extractParentId(items[i].path)) < maxDepth

\* ------------------------------------------------------------------------
\* Pacing of the requests of one scan
\* ------------------------------------------------------------------------
\* C21 as stated: between every two consecutive fetches of one scan (children
\* fetches of Tier-1 and fetchDeepItemData calls) a requestDelay sleep takes
\* place, whether the earlier fetch succeeded or failed: never are two
\* fetches issued without a completed sleep between them.
C21_SleepBetweenFetches == sinceSleep <= 1

\* ------------------------------------------------------------------------
\* Orphan warnings
\* ------------------------------------------------------------------------
\* The orphan warnings an analysis holds for one item.
OrphanWarnings(analysis, id) ==
    SelectSeq(analysis.issues,
              LAMBDA issue : /\ issue.category = "orphan"
                             /\ issue.severity = "warning"
                             /\ issue.itemId = id)

\* C22 as stated: an item whose parentId is non-empty and is not a key of
\* items gets exactly one orphan warning, whatever its path, and an item whose
\* parentId is empty or is a key of items gets none.
C22_OrphanWarnings ==
    aPc = "analyzed" =>
        \A i \in 1..Len(aScan.items) :
            LET item == aScan.items[i]
            IN  Len(OrphanWarnings(aResult, item.id)) =
                    IF item.parentId # <<>> /\ item.parentId \notin Keys(aScan.items)
                    THEN 1 ELSE 0

\* ------------------------------------------------------------------------
\* Failures of the deep scan
\* ------------------------------------------------------------------------
\* The candidates whose fetchDeepItemData call failed.
DeepFailures == {deepLog[k].id : k \in {j \in 1..Len(deepLog) : ~deepLog[j].ok}}

DeepRequested == {deepLog[k].id : k \in 1..Len(deepLog)}

\* What C23 says besides the recorded error: a failed candidate has no
\* deepData entry, the candidates after it are still fetched, and deepData
\* holds only ids of the capped candidate set.
DeepFailureIsolated ==
    /\ DeepFailures \cap Keys(deepData) = {}
    /\ Keys(deepData) \subseteq Range(getItemsForDeepScan(items))
    /\ (pc = "done" /\ tier >= 2 /\ ~aborted /\ ~escaped) =>
            DeepRequested = Range(getItemsForDeepScan(items))

\* C23 as stated: when the deep fetch of one candidate fails, an error for
\* that candidate is recorded in progress.errors, no deepData entry is stored
\* for it, every remaining candidate is still fetched, and deepData only ever
\* holds ids of the capped candidate set.
C23_DeepFailureRecorded ==
    /\ DeepFailureIsolated
    /\ pc = "done" =>
            \A id \in DeepFailures : \E k \in 1..Len(errors) : errors[k].path = id

\* ------------------------------------------------------------------------
\* The centered graph
\* ------------------------------------------------------------------------
\* The links of a scan between items: parent and child (both directions of
\* parentId), the data source of a page's rendering, and a GUID in a field
\* value of a page.
ItemLinks(scan) ==
    LET its == Range(scan.items)
        deep == Range(scan.deepData)
    IN  {<<i.id, i.parentId>> : i \in {j \in its : j.parentId \in Keys(scan.items)}}
        \cup {<<i.parentId, i.id>> : i \in {j \in its : j.parentId \in Keys(scan.items)}}
        \cup UNION {{<<d.id, r.dataSourceId>> :
                        r \in {q \in Range(d.renderings) :
                                  q.dataSourceId \in Keys(scan.items)}} : d \in deep}
        \cup UNION {UNION {{<<d.id, toUpperCase(guid)>> :
                               guid \in {g \in Range(f.value) :
                                           toUpperCase(g) \in Keys(scan.items)}} :
                           f \in Range(d.fields)} : d \in deep}

\* The ids reached from `from` over at most k links.
RECURSIVE WithinHops(_, _, _)
WithinHops(scan, from, k) ==
    IF k = 0 THEN {from}
    ELSE LET near == WithinHops(scan, from, k - 1)
         IN  near \cup {link[2] : link \in {l \in ItemLinks(scan) : l[1] \in near}}

ItemNodeIds(graph) ==
    {graph.nodes[i].id : i \in {j \in 1..Len(graph.nodes) : graph.nodes[j].type = "item"}}

AllNodeTypes == {"item", "template", "media", "rendering", "placeholder"}

\* The first half of C24: every item node of a centered graph is within
\* CenterMaxDepth links of the focal id.
CenterWithinReach ==
    (gPc = "returned" /\ gOptions.centerOn # <<>>) =>
        ItemNodeIds(gGraph) \subseteq WithinHops(gScan, gOptions.centerOn, CenterMaxDepth)

\* The second half: with every node type requested and the node budget not
\* hit, every item within CenterMaxDepth links of a focal item is a node.
CenterReachIncluded ==
    (/\ gPc = "returned"
     /\ gOptions.centerOn \in Keys(gScan.items)
     /\ gOptions.nodeTypes = AllNodeTypes
     /\ Len(gGraph.nodes) < gOptions.maxNodes) =>
        WithinHops(gScan, gOptions.centerOn, CenterMaxDepth) \subseteq ItemNodeIds(gGraph)

\* C24 as stated: in centered mode every item node is within 3 hops of the
\* focal id along parent, child, rendering-datasource or field-reference
\* links, and every item within that distance is included as long as the node
\* budget is not hit.
C24_CenteredNeighbourhood == CenterWithinReach /\ CenterReachIncluded

\* ------------------------------------------------------------------------
\* Trimming to maxNodes
\* ------------------------------------------------------------------------
\* The nodes and edges the builder holds before build() applies maxNodes.
Untrimmed ==
    IF gOptions.centerOn # <<>> THEN buildFromCenter(gScan, gOptions, gOptions.centerOn)
    ELSE buildFull(gScan, gOptions)

\* The number of edge ends at a node, over the edges built before trimming.
Degree(id) ==
    LET edges == Untrimmed.edges
    IN  Cardinality({<<i, end>> \in (1..Len(edges)) \X {"source", "target"} :
                        edges[i][end] = id})

TypeRank(type) ==
    CHOOSE r \in 1..5 : <<"placeholder", "media", "rendering", "template", "item">>[r] = type

\* a ranks strictly above b: a higher type, or the same type and more edge ends.
RanksAbove(a, b) ==
    \/ TypeRank(a.type) > TypeRank(b.type)
    \/ TypeRank(a.type) = TypeRank(b.type) /\ Degree(a.id) > Degree(b.id)

DroppedNodes == {n \in Range(Untrimmed.nodes) : n.id \notin NodeIds(gGraph)}

\* C25: when the builder holds more than maxNodes nodes, exactly maxNodes of
\* them are kept and no dropped node ranks strictly above a kept one, the rank
\* being the type priority item > template > rendering > media > placeholder
\* and then the number of edge ends over all edges built before trimming.
C25_TopNodesKept ==
    (gPc = "returned" /\ Len(Untrimmed.nodes) > gOptions.maxNodes) =>
        /\ Len(gGraph.nodes) = gOptions.maxNodes
        /\ Range(gGraph.nodes) \subseteq Range(Untrimmed.nodes)
        /\ \A d \in DroppedNodes, k \in Range(gGraph.nodes) : ~RanksAbove(d, k)

\* A trimmed graph in which the degree decided: an item was dropped although
\* it was built before a kept item, which has more edge ends.
C25_Witness ==
    /\ gPc = "returned"
    /\ Len(Untrimmed.nodes) > gOptions.maxNodes
    /\ \E d \in DroppedNodes, k \in Range(gGraph.nodes) :
          /\ d.type = "item" /\ k.type = "item"
          /\ Degree(k.id) > Degree(d.id)
          /\ \E i, j \in 1..Len(Untrimmed.nodes) :
                i < j /\ Untrimmed.nodes[i] = d /\ Untrimmed.nodes[j] = k
    /\ \E d \in DroppedNodes : d.type # "item"

\* ------------------------------------------------------------------------
\* The relationship maps of a completed scan
\* ------------------------------------------------------------------------
\* The ids, in insertion order, of the items that have value v in field f.
IdsWith(f, v) ==
    LET sel == SelectSeq(items, LAMBDA item : item[f] = v)
    IN  [k \in 1..Len(sel) |-> sel[k].id]

\* The pages whose deepData holds a rendering r.
PagesUsing(r) ==
    {deepData[k].id : k \in {j \in 1..Len(deepData) :
                                \E use \in Range(deepData[j].renderings) :
                                    use.renderingId = r}}

\* C26: after a completed scan childrenMap[p] is the list of the ids of the
\* items whose parentId is p, each once and in insertion order, for every
\* non-empty parentId p and no other key; templateUsage[t] is the list of the
\* ids of the items whose templateId is t, each once, so that the lists
\* partition the keys of items; renderingUsage[r] holds exactly the pages
\* whose deepData uses rendering r.
C26_RelationshipMaps ==
    (pc = "done" /\ status = "complete") =>
        /\ DOMAIN childrenMap = {item.parentId : item \in Range(items)} \ {<<>>}
        /\ \A p \in DOMAIN childrenMap : childrenMap[p] = IdsWith("parentId", p)
        /\ DOMAIN templateUsage = {item.templateId : item \in Range(items)}
        /\ \A t \in DOMAIN templateUsage : templateUsage[t] = IdsWith("templateId", t)
        /\ UNION {Range(templateUsage[t]) : t \in DOMAIN templateUsage} = Keys(items)
        /\ \A t, u \in DOMAIN templateUsage :
              t # u => Range(templateUsage[t]) \cap Range(templateUsage[u]) = {}
        /\ \A id \in Keys(items) :
              Cardinality({<<t, k>> \in (DOMAIN templateUsage) \X (1..Len(items)) :
                              k <= Len(templateUsage[t]) /\ templateUsage[t][k] = id}) = 1
        /\ DOMAIN renderingUsage =
              UNION {{use.renderingId : use \in Range(d.renderings)} : d \in Range(deepData)}
        /\ \A r \in DOMAIN renderingUsage : Range(renderingUsage[r]) = PagesUsing(r)

\* A completed Tier-2 scan with two children under one parent, two templates
\* in use, each by two items, and a page whose deep data is missing.
C26_Witness ==
    /\ pc = "done" /\ status = "complete"
    /\ \E p \in DOMAIN childrenMap : Len(childrenMap[p]) >= 2
    /\ Cardinality(DOMAIN childrenMap) >= 2
    /\ Cardinality(DOMAIN templateUsage) = 2
    /\ \A t \in DOMAIN templateUsage : Len(templateUsage[t]) = 2
    /\ \E r \in DOMAIN renderingUsage :
          /\ renderingUsage[r] # <<>>
          /\ Len(renderingUsage[r]) < Len(getItemsForDeepScan(items))

\* ------------------------------------------------------------------------
\* Orphans of a scanned tree
\* ------------------------------------------------------------------------
\* The item of the content tree that is the parent of the item `id`, if that
\* parent was indexed by the scan.
IndexedParents(id) ==
    {other \in Keys(items) : NodeOfId(other) = par[NodeOfId(id)]}

\* C27 as stated: after a complete scan no orphan warning is reported for an
\* item whose parent item was indexed in the same scan, the parentId stored
\* for such an item being a key of items.
C27_NoOrphanUnderIndexedParent ==
    (xStored /\ status = "complete" /\ xAnalysis # <<>>) =>
        \A i \in 1..Len(items) :
            IndexedParents(items[i].id) # {} =>
                /\ items[i].parentId \in Keys(items)
                /\ OrphanWarnings(xAnalysis[1], items[i].id) = <<>>

\* ------------------------------------------------------------------------
\* Requests after abort()
\* ------------------------------------------------------------------------
\* The awaits of scan() that wait for an answer of the content source.
RequestPoints == {"awaitFetch", "awaitTemplates", "awaitMedia", "awaitRenderings",
                  "awaitDeep"}

\* The step sends a request of one of the given kinds.
Issues(points) == pc' \in points /\ pc' # pc

\* After abort() no children fetch and no deep-item fetch starts.
LoopsStopOnAbort == [][aborted => ~Issues({"awaitFetch", "awaitDeep"})]_vars

\* C28 as stated: once abort() has been called the scan issues no further
\* request of any kind: no children fetch, no templates, media or renderings
\* pass and no deep-item fetch starts after the abort.
C28_NoRequestAfterAbort == [][aborted => ~Issues(RequestPoints)]_vars

\* ------------------------------------------------------------------------
\* Scans of a source that answers every listing alike
\*
\* fetchChildren builds a query from the path and does not send it: the
\* adapter is asked for listContent({limit: 100, locale}).  An adapter that
\* answers from its arguments returns, for every dequeued path, the same
\* items, here all the items of the tree.  With maxDepth = -1 such a scan
\* dequeues paths for ever; WhileTest stops following it after MaxFetches.
\* ------------------------------------------------------------------------
InitListing ==
    /\ GraphIdle
    /\ AnalyzerIdle
    /\ ServerIdle
    /\ par \in Trees
    /\ scoped = FALSE
    /\ untyped = {}
    /\ maxItems \in {NumItems - 1, DefaultMaxItems}
    /\ maxDepth \in {-1, MaxDepthBound}
    /\ \E c \in ScanConfigs :
          /\ tier = c.tier
          /\ includeTemplates = c.templates
          /\ includeMedia = c.media
          /\ includeRenderings = c.renderings
          /\ hasProgress = c.progress
    /\ initializeResult

ListingSpec == InitListing /\ [][NextScan]_vars

\* C29 as stated, its first half: Tier-1 traversal dequeues and fetches each
\* path at most once, whatever the content source lists: no step of the
\* while loop sends a fetch for a path that was fetched before.
C29_EachPathFetchedOnce ==
    [][(pc = "whileTest" /\ pc' = "awaitFetch") => currentPath' \notin fetched]_vars

\* ------------------------------------------------------------------------
\* The cached quick health over several scans
\*
\* The server starts its scans without an onProgress callback, so the one
\* exception that reaches the catch of scan() is the TypeError of
\* getItemsForDeepScan on an item the source returned without a type.  The
\* specification below lets the source do that, and lets xray_scan be called
\* again once the former scan and its callback have ended.
\* ------------------------------------------------------------------------
\* The nodes the source may return without a type: none, or the second item.
UntypedChoices == {{}, {2}}

\* case 'xray_scan', lines 567-608, called after an earlier scan and its
\* callback have ended: a new scanner with a new result (the constructor,
\* scanner.ts lines 43-79) takes the place of the former one, the source may
\* have changed, and lastXrayHealth is left as it is.
xray_scan_Again ==
    /\ xStored
    /\ pc = "done"
    /\ xThenRan
    /\ \E a \in ServerScanArgs :
          /\ tier' = a.tier
          /\ includeTemplates' = a.templates
          /\ includeMedia' = a.media
          /\ includeRenderings' = a.renderings
    /\ untyped' \in UntypedChoices
    /\ status' = "scanning"
    /\ phase' = "items"
    /\ currentPath' = <<>>
    /\ itemsScanned' = 0
    /\ errors' = <<>>
    /\ items' = <<>>
    /\ templates' = <<>>
    /\ media' = <<>>
    /\ renderings' = <<>>
    /\ deepData' = <<>>
    /\ childrenMap' = EmptyMap
    /\ templateUsage' = EmptyMap
    /\ renderingUsage' = EmptyMap
    /\ queue' = <<RootPath>>
    /\ depth' = 0
    /\ children' = <<>>
    /\ candidates' = <<>>
    /\ pc' = "whileTest"
    /\ fetched' = {}
    /\ escaped' = FALSE
    /\ itemsAtAbort' = <<>>
    /\ queuedAtFailure' = {}
    /\ sinceSleep' = 0
    /\ deepLog' = <<>>
    /\ xAnalysis' = <<>>
    /\ xThenRan' = FALSE
    /\ xReply' = <<[tool |-> "xray_scan", status |-> "scanning"]>>
    /\ UNCHANGED <<par, scoped, maxItems, maxDepth, hasProgress, aborted>>
    /\ UNCHANGED <<graphVars, analyzerVars, registryVars, rateVars, xStored,
                   lastXrayHealth, clock, xReports>>

InitHealth ==
    /\ GraphIdle
    /\ AnalyzerIdle
    /\ RegistryIdle
    /\ RateIdle
    /\ par \in ServerTrees
    /\ scoped = TRUE
    /\ untyped \in UntypedChoices
    /\ maxItems = DefaultMaxItems
    /\ maxDepth = -1
    /\ \E a \in ServerScanArgs :
          /\ tier = a.tier
          /\ includeTemplates = a.templates
          /\ includeMedia = a.media
          /\ includeRenderings = a.renderings
    /\ hasProgress = FALSE
    /\ initializeResult
    /\ xStored = FALSE
    /\ xAnalysis = <<>>
    /\ xThenRan = FALSE
    /\ lastXrayHealth = <<>>
    /\ clock = Today
    /\ xReports = <<>>
    /\ xReply = <<>>

NextHealth ==
    \/ xray_scan \/ xray_scan_Again \/ ScanRuns \/ ScanThen
    \/ xray_health

HealthSpec == InitHealth /\ [][NextHealth]_vars

\* The reply xray_health gives in a step, if the step is such a reply.
HealthReplied ==
    /\ xReply' # xReply
    /\ xReply' # <<>>
    /\ xReply'[1].tool = "xray_health"

====
